---- MODULE Spec2Model ----
(***************************************************************************)
(* The dynamic analysis engine of src/back-end/agent.ts: analyzeDynamically *)
(* over the module-level dataset sourceData.attributes, the helpers it      *)
(* calls, inferFieldMeanings, and the analyzeDynamically dispatch of        *)
(* runAgent.                                                                *)
(*                                                                          *)
(* Numbers are exact: an average, a variance and a ratio are fractions, a   *)
(* correlation is num / sqrt(den2), and every comparison that involves a    *)
(* square root is decided by squaring.  Timestamps are days since the epoch *)
(* instead of milliseconds (a monotone rescaling).                          *)
(***************************************************************************)
EXTENDS Integers, Sequences, FiniteSets, TLC

VARIABLES
  hasAttributes,  \* Array.isArray(sourceData?.attributes)
  attributes,     \* sourceData.attributes: the shared, module-level dataset
  call,           \* per analyzeDynamically invocation: position, arguments, locals, result
  input0,         \* the dataset as loaded, before any call (history)
  meanings,       \* the value returned by the last inferFieldMeanings call
  pearson,        \* the operands and the values of the last correlation calls
  agent,          \* one runAgent run: its position, analysisResults and response
  doubles         \* one column and its anomalies as computed in double precision

vars == <<hasAttributes, attributes, call, input0, meanings, pearson, agent, doubles>>

----------------------------------------------------------------------------
(* JavaScript values of a DataRecord: number | string | null | undefined.  *)

Undef == [t |-> "undefined", n |-> 0, s |-> ""]
Null == [t |-> "null", n |-> 0, s |-> ""]
Num(k) == [t |-> "number", n |-> k, s |-> ""]
Str(x) == [t |-> "string", n |-> 0, s |-> x]

IsNumber(v) == v.t = "number"

\* row[field]: undefined for a key the record does not hold
Get(row, f) == IF f \in DOMAIN row THEN row[f] ELSE Undef

\* Number(v) of the relational operators; ok = FALSE stands for NaN
ToNumber(v) ==
  CASE v.t = "number" -> [ok |-> TRUE, n |-> v.n]
    [] v.t = "null" -> [ok |-> TRUE, n |-> 0]
    [] v.t = "string" /\ v.s = "" -> [ok |-> TRUE, n |-> 0]
    [] OTHER -> [ok |-> FALSE, n |-> 0]

\* truthiness of a value, as in `a[dateField] ? ... : 0`
Truthy(v) ==
  CASE v.t = "number" -> v.n # 0
    [] v.t = "string" -> v.s # ""
    [] OTHER -> FALSE

----------------------------------------------------------------------------
(* Exact fractions.                                                        *)

Abs(x) == IF x < 0 THEN -x ELSE x

RECURSIVE GCD(_, _)
GCD(a, b) == IF b = 0 THEN a ELSE GCD(b, a % b)

\* a / b in lowest terms with a positive denominator (b # 0)
Frac(a, b) ==
  LET g == GCD(Abs(a), Abs(b))
      sg == IF b < 0 THEN -1 ELSE 1
  IN  [num |-> (sg * a) \div g, den |-> Abs(b) \div g]

FracOfInt(k) == [num |-> k, den |-> 1]
FracZero == FracOfInt(0)

----------------------------------------------------------------------------
(* Sequence helpers: Array.prototype.map / filter / reduce / includes.     *)

Range(s) == {s[i] : i \in DOMAIN s}

SeqIncludes(s, x) == \E i \in DOMAIN s : s[i] = x

RECURSIVE SumSeq(_)
SumSeq(s) == IF s = <<>> THEN 0 ELSE Head(s) + SumSeq(Tail(s))

RECURSIVE MinSeq(_)
MinSeq(s) ==
  IF Len(s) = 1 THEN s[1]
  ELSE LET m == MinSeq(Tail(s)) IN IF s[1] < m THEN s[1] ELSE m

RECURSIVE MaxSeq(_)
MaxSeq(s) ==
  IF Len(s) = 1 THEN s[1]
  ELSE LET m == MaxSeq(Tail(s)) IN IF s[1] > m THEN s[1] ELSE m

\* String.prototype.includes on strings held as sequences of characters
Includes(s, p) ==
  \E i \in 0..(Len(s) - Len(p)) : SubSeq(s, i + 1, i + Len(p)) = p

----------------------------------------------------------------------------
(* Strings whose characters the code inspects are sequences of characters. *)

\* the characters of the field names the model uses
Chars(name) ==
  CASE name = "date" -> <<"d", "a", "t", "e">>
    [] name = "resolved" -> <<"r", "e", "s", "o", "l", "v", "e", "d">>
    [] name = "errors" -> <<"e", "r", "r", "o", "r", "s">>
    [] name = "owner" -> <<"o", "w", "n", "e", "r">>
    [] name = "incidentCount" -> <<"i", "n", "c", "i", "d", "e", "n", "t", "C", "o", "u", "n", "t">>
    [] name = "ticketId" -> <<"t", "i", "c", "k", "e", "t", "I", "d">>
    [] name = "errorRate" -> <<"e", "r", "r", "o", "r", "R", "a", "t", "e">>
    [] name = "createdTime" -> <<"c", "r", "e", "a", "t", "e", "d", "T", "i", "m", "e">>
    [] name = "priority" -> <<"p", "r", "i", "o", "r", "i", "t", "y">>
    [] name = "score" -> <<"s", "c", "o", "r", "e">>
    [] name = "resolvedCount" -> <<"r", "e", "s", "o", "l", "v", "e", "d", "C", "o", "u", "n", "t">>

UpperToLower ==
  "A" :> "a" @@ "B" :> "b" @@ "C" :> "c" @@ "D" :> "d" @@ "E" :> "e" @@ "F" :> "f" @@
  "G" :> "g" @@ "H" :> "h" @@ "I" :> "i" @@ "J" :> "j" @@ "K" :> "k" @@ "L" :> "l" @@
  "M" :> "m" @@ "N" :> "n" @@ "O" :> "o" @@ "P" :> "p" @@ "Q" :> "q" @@ "R" :> "r" @@
  "S" :> "s" @@ "T" :> "t" @@ "U" :> "u" @@ "V" :> "v" @@ "W" :> "w" @@ "X" :> "x" @@
  "Y" :> "y" @@ "Z" :> "z"

\* String.prototype.toLowerCase
ToLowerCase(s) ==
  [i \in DOMAIN s |-> IF s[i] \in DOMAIN UpperToLower THEN UpperToLower[s[i]] ELSE s[i]]

\* field.toLowerCase().includes(p)
NameIncludes(name, p) == Includes(ToLowerCase(Chars(name)), p)

\* new Date(s).getTime() for the date strings of the model, in days since
\* 1970-01-01
DateGetTime(s) ==
  CASE s = "2024-01-01" -> 19723
    [] s = "2024-02-01" -> 19754
    [] s = "2024-03-01" -> 19783

\* String(n), the property key a number becomes in distribution
NumberToString(n) ==
  CASE n = -1 -> "-1"
    [] n = 0 -> "0"
    [] n = 1 -> "1"
    [] n = 2 -> "2"
    [] n = 3 -> "3"
    [] n = 4 -> "4"
    [] n = 6 -> "6"
    [] n = 8 -> "8"
    [] n = 10 -> "10"
    [] n = 20 -> "20"
    [] n = 30 -> "30"

----------------------------------------------------------------------------
(* The dataset: an array of flat records that list their keys in one order. *)

\* the key order of every record of data/source.json
FieldOrder == <<"date", "resolved", "score", "ticketId", "createdTime">>

\* Object.keys(data[0] || {})
Fields(data) ==
  IF data = <<>> THEN <<>>
  ELSE SelectSeq(FieldOrder, LAMBDA f : Get(data[1], f) # Undef)

\* data.map((row) => row[field])
Column(data, f) == [i \in 1..Len(data) |-> Get(data[i], f)]

\* the filter without its null test: .filter((v) => v !== undefined)
Values_KeepNull(data, f) == SelectSeq(Column(data, f), LAMBDA v : v # Undef)

\* ... .filter((v) => v !== undefined && v !== null)
Values(data, f) == SelectSeq(Column(data, f), LAMBDA v : v # Undef /\ v # Null)

\* ... .filter((v) => typeof v === "number" && !isNaN(v))
NumericValues(data, f) ==
  LET col == SelectSeq(Column(data, f), IsNumber)
  IN  [i \in DOMAIN col |-> col[i].n]

\* the sample variance: the squared deviations divided by length - 1
variance_Sample(values) ==
  IF Len(values) < 2 THEN FracZero
  ELSE LET n == Len(values)
           S == SumSeq(values)
           sq == [i \in DOMAIN values |-> (n * values[i] - S) * (n * values[i] - S)]
       IN  Frac(SumSeq(sq), n * n * (n - 1))

\* variance(values): the mean of the squared deviations from the mean
variance(values) ==
  IF Len(values) < 1 THEN FracZero
  ELSE LET n == Len(values)
           S == SumSeq(values)
           \* (val - S/n)^2 = (n*val - S)^2 / n^2
           sq == [i \in DOMAIN values |-> (n * values[i] - S) * (n * values[i] - S)]
       IN  Frac(SumSeq(sq), n * n * n)

\* distribution(values): String(val) -> number of occurrences
ToKey(v) == IF v.t = "number" THEN NumberToString(v.n) ELSE v.s

distribution(values) ==
  [k \in {ToKey(values[i]) : i \in DOMAIN values} |->
     Cardinality({i \in DOMAIN values : ToKey(values[i]) = k})]

\* Object.keys(dist): the integer keys ascending, then the other keys in the
\* order of their first occurrence
IsIndexKey(v) == v.t = "number" /\ v.n >= 0

RECURSIVE AscendingKeys(_)
AscendingKeys(S) ==
  IF S = {} THEN <<>>
  ELSE LET m == CHOOSE x \in S : \A y \in S : x <= y
       IN  <<NumberToString(m)>> \o AscendingKeys(S \ {m})

RECURSIVE FirstOccurrences(_, _)
FirstOccurrences(values, seen) ==
  IF values = <<>> THEN <<>>
  ELSE LET k == ToKey(Head(values))
       IN  IF IsIndexKey(Head(values)) \/ k \in seen
           THEN FirstOccurrences(Tail(values), seen)
           ELSE <<k>> \o FirstOccurrences(Tail(values), seen \cup {k})

DistributionKeys(values) ==
  AscendingKeys({values[i].n : i \in {j \in DOMAIN values : IsIndexKey(values[j])}})
    \o FirstOccurrences(values, {})

\* Object.keys(dist).reduce((a, b) => (dist[a] > dist[b] ? a : b))
RECURSIVE ReduceMostCommon(_, _, _)
ReduceMostCommon(dist, a, keys) ==
  IF keys = <<>> THEN a
  ELSE ReduceMostCommon(dist, IF dist[a] > dist[Head(keys)] THEN a ELSE Head(keys),
                        Tail(keys))

mostCommon(values) ==
  LET keys == DistributionKeys(values)
  IN  ReduceMostCommon(distribution(values), Head(keys), Tail(keys))

----------------------------------------------------------------------------
(* analyzeDynamically, before the await: field types, stats, time series.  *)

Kw_id == <<"i", "d">>
Kw_number == <<"n", "u", "m", "b", "e", "r">>
Kw_date == <<"d", "a", "t", "e">>
Kw_time == <<"t", "i", "m", "e">>

\* values.every((v) => typeof v === "number" && !isNaN(v)), values being the
\* non-null, non-undefined entries of the column
IsNumericField(data, f) ==
  \A i \in 1..Len(data) :
     LET v == Get(data[i], f) IN v = Undef \/ v = Null \/ IsNumber(v)

\* the test for "time" alone
IsTemporalField_TimeOnly(f) == NameIncludes(f, Kw_time)

\* field.toLowerCase().includes("date") || field.toLowerCase().includes("time")
IsTemporalField(f) == NameIncludes(f, Kw_date) \/ NameIncludes(f, Kw_time)

\* fieldTypes[field]
FieldType(data, f) ==
  LET values == Values(data, f)
      uniqueValues == Range(values)
      isNumeric == IsNumericField(data, f)
      isBoolean == Cardinality(uniqueValues) <= 2
                   /\ \A v \in uniqueValues : v = Num(0) \/ v = Num(1)
      isIdentifier == NameIncludes(f, Kw_id) \/ NameIncludes(f, Kw_number)
      \* uniqueValues.length < values.length * 0.5
      isCategorical == ~isNumeric /\ 2 * Cardinality(uniqueValues) < Len(values)
      isTemporal == IsTemporalField(f)
  IN  [type |-> IF isNumeric THEN "numeric"
                ELSE IF isCategorical THEN "categorical"
                ELSE IF isTemporal THEN "temporal" ELSE "text",
       isIdentifier |-> isIdentifier,
       isBoolean |-> isBoolean,
       isTemporal |-> isTemporal,
       uniqueCount |-> Cardinality(uniqueValues),
       totalCount |-> Len(values),
       sparsity |-> Frac(Len(data) - Len(values), Len(data))]

FieldTypes(data) == [f \in Range(Fields(data)) |-> FieldType(data, f)]

NoDistribution == [k \in {} |-> 0]

\* fieldStats[field] of a numeric field that is analysed
NumericStats(values) ==
  LET nums == [i \in DOMAIN values |-> values[i].n]
      has == Len(values) > 0
  IN  [kind |-> "numeric",
       min |-> IF has THEN MinSeq(nums) ELSE 0,
       max |-> IF has THEN MaxSeq(nums) ELSE 0,
       avg |-> IF has THEN Frac(SumSeq(nums), Len(nums)) ELSE FracZero,
       sum |-> IF has THEN SumSeq(nums) ELSE 0,
       variance |-> IF has THEN variance(nums) ELSE FracZero,
       distribution |-> NoDistribution,
       mostCommon |-> [isNull |-> TRUE, key |-> ""]]

\* fieldStats[field] of any other field that is not temporal
DistributionStats(values) ==
  [kind |-> "distribution",
   min |-> 0, max |-> 0, avg |-> FracZero, sum |-> 0, variance |-> FracZero,
   distribution |-> distribution(values),
   mostCommon |-> IF Len(values) > 0
                  THEN [isNull |-> FALSE, key |-> mostCommon(values)]
                  ELSE [isNull |-> TRUE, key |-> ""]]

\* isNumeric && (targetFields.includes(field) || targetFields.length === 0)
HasNumericStats(data, targetFields, f) ==
  IsNumericField(data, f) /\ (SeqIncludes(targetFields, f) \/ Len(targetFields) = 0)

\* the fields that get an entry in fieldStats, in insertion order
StatKeys(data, targetFields) ==
  SelectSeq(Fields(data),
            LAMBDA f : HasNumericStats(data, targetFields, f) \/ ~IsTemporalField(f))

FieldStats(data, targetFields) ==
  [f \in Range(StatKeys(data, targetFields)) |->
     IF HasNumericStats(data, targetFields, f)
     THEN NumericStats(Values(data, f))
     ELSE DistributionStats(Values(data, f))]

\* timeSeries[field] = data.map((row) => ({ date: row[field], values: row }))
TimeSeries(data, targetFields) ==
  [f \in {g \in Range(Fields(data)) :
            ~HasNumericStats(data, targetFields, g) /\ IsTemporalField(g)} |->
     [i \in 1..Len(data) |-> [date |-> Get(data[i], f), values |-> data[i]]]]

\* validFields.length > 0 ? validFields : Object.keys(fieldStats)
AnalysisFields(data, targetFields) ==
  LET fields == Fields(data)
      validFields == SelectSeq(targetFields,
                       LAMBDA f : SeqIncludes(fields, f) /\ IsNumericField(data, f))
  IN  IF Len(validFields) > 0 THEN validFields ELSE StatKeys(data, targetFields)

----------------------------------------------------------------------------
(* correlation, trend and the three detectors of the return statement.     *)

\* a correlation value sign * sqrt(sq), sq a fraction in lowest terms
CorrZero == [sign |-> 0, sq |-> FracZero]

\* the denominator built from the sums of x alone
correlation_SumX2Twice(x, y) ==
  IF Len(x) # Len(y) \/ Len(x) < 2 THEN CorrZero
  ELSE LET n == Len(x)
           sumX == SumSeq(x)
           sumY == SumSeq(y)
           sumXY == SumSeq([i \in DOMAIN x |-> x[i] * y[i]])
           sumX2 == SumSeq([i \in DOMAIN x |-> x[i] * x[i]])
           den2 == (n * sumX2 - sumX * sumX) * (n * sumX2 - sumX * sumX)
           num == n * sumXY - sumX * sumY
       IN  IF den2 = 0 \/ num = 0 THEN CorrZero
           ELSE [sign |-> IF num > 0 THEN 1 ELSE -1, sq |-> Frac(num * num, den2)]

\* correlation(x, y): Pearson, 0 for unequal or short vectors or a zero
\* denominator
correlation(x, y) ==
  IF Len(x) # Len(y) \/ Len(x) < 2 THEN CorrZero
  ELSE LET n == Len(x)
           sumX == SumSeq(x)
           sumY == SumSeq(y)
           sumXY == SumSeq([i \in DOMAIN x |-> x[i] * y[i]])
           sumX2 == SumSeq([i \in DOMAIN x |-> x[i] * x[i]])
           sumY2 == SumSeq([i \in DOMAIN y |-> y[i] * y[i]])
           den2 == (n * sumX2 - sumX * sumX) * (n * sumY2 - sumY * sumY)
           num == n * sumXY - sumX * sumY
       IN  IF den2 = 0 \/ num = 0 THEN CorrZero
           ELSE [sign |-> IF num > 0 THEN 1 ELSE -1, sq |-> Frac(num * num, den2)]

\* trend(values): correlation of the index sequence 0, 1, 2, ... with the values
trend(values) ==
  IF Len(values) < 2 THEN CorrZero
  ELSE correlation([i \in DOMAIN values |-> i - 1], values)

\* Math.abs(c) > p / q
AbsExceeds(c, p, q) == c.sq.num * q * q > p * p * c.sq.den

NumericFields(fields, fieldTypes) ==
  SelectSeq(fields, LAMBDA f : f \in DOMAIN fieldTypes /\ fieldTypes[f].type = "numeric")

RECURSIVE FlattenSeq(_)
FlattenSeq(ss) == IF ss = <<>> THEN <<>> ELSE Head(ss) \o FlattenSeq(Tail(ss))

\* the longer value list cut to the length of the shorter one
relationships_Truncated(data, fields, fieldTypes) ==
  LET numericFields == NumericFields(fields, fieldTypes)
      n == Len(numericFields)
      Pair(i, j) ==
        LET all1 == NumericValues(data, numericFields[i])
            all2 == NumericValues(data, numericFields[j])
            m == IF Len(all1) < Len(all2) THEN Len(all1) ELSE Len(all2)
            values1 == SubSeq(all1, 1, m)
            values2 == SubSeq(all2, 1, m)
            corr == correlation(values1, values2)
        IN  IF Len(values1) > 1 /\ Len(values2) > 1 /\ AbsExceeds(corr, 1, 2)
            THEN <<[field1 |-> numericFields[i], field2 |-> numericFields[j],
                    type |-> "correlation", strength |-> corr,
                    direction |-> IF corr.sign > 0 THEN "positive" ELSE "negative"]>>
            ELSE <<>>
      Row(i) == FlattenSeq([k \in 1..(n - i) |-> Pair(i, i + k)])
  IN  FlattenSeq([i \in 1..n |-> Row(i)])

\* relationships(data, fields, fieldTypes)
relationships(data, fields, fieldTypes) ==
  LET numericFields == NumericFields(fields, fieldTypes)
      n == Len(numericFields)
      Pair(i, j) ==
        LET values1 == NumericValues(data, numericFields[i])
            values2 == NumericValues(data, numericFields[j])
            corr == correlation(values1, values2)
        IN  IF Len(values1) > 1 /\ Len(values2) > 1 /\ AbsExceeds(corr, 1, 2)
            THEN <<[field1 |-> numericFields[i], field2 |-> numericFields[j],
                    type |-> "correlation", strength |-> corr,
                    direction |-> IF corr.sign > 0 THEN "positive" ELSE "negative"]>>
            ELSE <<>>
      Row(i) == FlattenSeq([k \in 1..(n - i) |-> Pair(i, i + k)])
  IN  FlattenSeq([i \in 1..n |-> Row(i)])

\* patterns(data, fields, fieldTypes)
patterns(data, fields, fieldTypes) ==
  LET One(f) ==
        LET values == NumericValues(data, f)
            trendVal == trend(values)
        IN  IF f \in DOMAIN fieldTypes /\ fieldTypes[f].type = "numeric"
               /\ Len(values) > 1 /\ AbsExceeds(trendVal, 3, 10)
            THEN <<[type |-> "trend", field |-> f,
                    direction |-> IF trendVal.sign > 0 THEN "increasing" ELSE "decreasing",
                    strength |-> [sign |-> 1, sq |-> trendVal.sq]]>>
            ELSE <<>>
  IN  FlattenSeq([i \in DOMAIN fields |-> One(fields[i])])

\* (row[field] as number) > stats.avg + 2 * Math.sqrt(stats.variance), for
\* avg = a/b and variance = p/q:  v*b - a > 0  and  (v*b - a)^2 * q > 4*p*b^2
ExceedsThreshold(v, stats) ==
  LET x == ToNumber(v)
      d == x.n * stats.avg.den - stats.avg.num
  IN  x.ok /\ d > 0
      /\ d * d * stats.variance.den > 4 * stats.variance.num * stats.avg.den * stats.avg.den

\* anomalies(data, fields, fieldStats); record is the 0-based index in data.
\* severity, a function of value, avg and variance, is left out.
anomalies(data, statKeys, fieldStats) ==
  LET One(f) ==
        IF fieldStats[f].kind = "numeric"
        THEN LET hits == SelectSeq([i \in 1..Len(data) |-> i],
                           LAMBDA i : ExceedsThreshold(Get(data[i], f), fieldStats[f]))
             IN  [k \in DOMAIN hits |->
                    [field |-> f, record |-> hits[k] - 1,
                     value |-> Get(data[hits[k]], f), type |-> "outlier_high"]]
        ELSE <<>>
  IN  FlattenSeq([i \in DOMAIN statKeys |-> One(statKeys[i])])

\* dataQuality(data, fields)
dataQuality(data, fields) ==
  [completeness |->
     [f \in Range(fields) |->
        IF Len(data) > 0 THEN Frac(Len(Values(data, f)), Len(data)) ELSE FracZero],
   overall |-> "good"]

RECURSIVE JoinWithSpace(_)
JoinWithSpace(names) ==
  IF names = <<>> THEN <<>>
  ELSE IF Len(names) = 1 THEN Chars(names[1])
  ELSE Chars(names[1]) \o <<" ">> \o JoinWithSpace(Tail(names))

\* three independent tests in place of the else-if chain
businessContext_NoElse(fields, fieldTypes) ==
  LET fieldNames == ToLowerCase(JoinWithSpace(fields))
      Has(w) == Includes(fieldNames, w)
  IN  [domain |->
         IF Has(<<"t", "i", "c", "k", "e", "t">>)
            \/ Has(<<"i", "n", "c", "i", "d", "e", "n", "t">>)
            \/ Has(<<"r", "e", "s", "o", "l", "v", "e", "d">>)
         THEN "incident_management"
         ELSE IF Has(<<"s", "a", "l", "e", "s">>) \/ Has(<<"r", "e", "v", "e", "n", "u", "e">>)
         THEN "sales_analytics"
         ELSE IF Has(<<"u", "s", "e", "r">>) \/ Has(<<"c", "u", "s", "t", "o", "m", "e", "r">>)
         THEN "customer_analytics"
         ELSE "unknown",
       primaryMetrics |-> SelectSeq(fields, LAMBDA f : fieldTypes[f].type = "numeric"),
       identifiers |-> SelectSeq(fields, LAMBDA f : fieldTypes[f].isIdentifier),
       categories |-> SelectSeq(fields, LAMBDA f : fieldTypes[f].type = "categorical")]

\* businessContext(fields, fieldTypes, data)
businessContext(fields, fieldTypes) ==
  LET fieldNames == ToLowerCase(JoinWithSpace(fields))
      Has(w) == Includes(fieldNames, w)
      Bucket(f) ==
        IF fieldTypes[f].isIdentifier THEN "identifiers"
        ELSE IF fieldTypes[f].type = "numeric" /\ ~fieldTypes[f].isIdentifier
             THEN "primaryMetrics"
        ELSE IF fieldTypes[f].type = "categorical" THEN "categories" ELSE ""
  IN  [domain |->
         IF Has(<<"t", "i", "c", "k", "e", "t">>)
            \/ Has(<<"i", "n", "c", "i", "d", "e", "n", "t">>)
            \/ Has(<<"r", "e", "s", "o", "l", "v", "e", "d">>)
         THEN "incident_management"
         ELSE IF Has(<<"s", "a", "l", "e", "s">>) \/ Has(<<"r", "e", "v", "e", "n", "u", "e">>)
         THEN "sales_analytics"
         ELSE IF Has(<<"u", "s", "e", "r">>) \/ Has(<<"c", "u", "s", "t", "o", "m", "e", "r">>)
         THEN "customer_analytics"
         ELSE "unknown",
       primaryMetrics |-> SelectSeq(fields, LAMBDA f : Bucket(f) = "primaryMetrics"),
       identifiers |-> SelectSeq(fields, LAMBDA f : Bucket(f) = "identifiers"),
       categories |-> SelectSeq(fields, LAMBDA f : Bucket(f) = "categories")]

----------------------------------------------------------------------------
(* analyzeDynamically, after the await: the plan loop.                     *)
(* A plan is the sequence of its entries [area, metrics, dateField] in     *)
(* Object.entries order; dateField "" stands for an absent dateField.      *)

EmptyEntry ==
  [error |-> "", hasTotal |-> FALSE, total |-> 0,
   hasAverage |-> FALSE, average |-> FracZero,
   hasTrend |-> FALSE, trend |-> <<>>, unsupported |-> {}]

ErrorEntry(msg) == [EmptyEntry EXCEPT !.error = msg]

DepthString(str) == [kind |-> "string", str |-> str, arr |-> <<>>]
DepthArray(arr) == [kind |-> "array", str |-> "", arr |-> arr]

\* depth === "basic"
DepthIsBasic(depth) == depth.kind = "string" /\ depth.str = "basic"

\* a[dateField] ? new Date(a[dateField]).getTime() : 0
DateKey(row, dateField) ==
  LET v == Get(row, dateField)
  IN  IF Truthy(v) THEN (IF v.t = "number" THEN v.n ELSE DateGetTime(v.s)) ELSE 0

\* the comparator with its operands swapped: (a, b) => dateB - dateA
SortByDate_Descending(data, dateField) ==
  LET n == Len(data)
      Before(k, j) ==
        DateKey(data[k], dateField) > DateKey(data[j], dateField)
        \/ (DateKey(data[k], dateField) = DateKey(data[j], dateField) /\ k < j)
      Rank(j) == Cardinality({k \in 1..n : Before(k, j)}) + 1
  IN  [i \in 1..n |-> data[CHOOSE j \in 1..n : Rank(j) = i]]

\* data.sort((a, b) => dateA - dateB): Array.prototype.sort is stable, and it
\* sorts the array it is called on
SortByDate(data, dateField) ==
  LET n == Len(data)
      Before(k, j) ==
        DateKey(data[k], dateField) < DateKey(data[j], dateField)
        \/ (DateKey(data[k], dateField) = DateKey(data[j], dateField) /\ k < j)
      Rank(j) == Cardinality({k \in 1..n : Before(k, j)}) + 1
  IN  [i \in 1..n |-> data[CHOOSE j \in 1..n : Rank(j) = i]]

\* one pass of the body of targetMetrics.forEach for (field, metric);
\* st = [data, entries, hasRatio, ratio, threw] is what the loop mutates, and
\* whether a TypeError has ended it
ApplyMetric(st, field, metric, dateField, depth, fieldStats, analysisFields) ==
  LET stats == fieldStats[field]
      entry == st.entries[field]
      Put(e) == [st EXCEPT !.entries = [@ EXCEPT ![field] = e]]
  IN  IF DepthIsBasic(depth) /\ metric = "time_series" THEN st
      ELSE CASE metric = "sum" ->
                  Put([entry EXCEPT !.hasTotal = TRUE,
                                    !.total = IF stats.kind = "numeric" THEN stats.sum ELSE 0])
             [] metric = "avg" ->
                  Put([entry EXCEPT !.hasAverage = TRUE,
                                    !.average = IF stats.kind = "numeric" THEN stats.avg
                                                ELSE FracZero])
             [] metric = "time_series" ->
                  IF dateField # ""
                  THEN LET sorted == SortByDate(st.data, dateField)
                       IN  [st EXCEPT
                              !.data = sorted,
                              !.entries = [@ EXCEPT ![field] =
                                 [entry EXCEPT !.hasTrend = TRUE,
                                    !.trend = [i \in DOMAIN sorted |->
                                       [date |-> Get(sorted[i], dateField),
                                        value |-> Get(sorted[i], field)]]]]]
                  ELSE st
             [] metric = "ratio" ->
                  IF Len(analysisFields) > 1
                     /\ fieldStats[analysisFields[1]].kind = "numeric"
                     /\ fieldStats[analysisFields[1]].sum # 0
                     /\ fieldStats[analysisFields[2]].kind = "numeric"
                     /\ fieldStats[analysisFields[2]].sum # 0
                  THEN [st EXCEPT !.hasRatio = TRUE,
                                  !.ratio = Frac(fieldStats[analysisFields[1]].sum,
                                                 fieldStats[analysisFields[2]].sum)]
                  ELSE st
             [] OTHER -> Put([entry EXCEPT !.unsupported = @ \cup {metric}])

RECURSIVE ApplyMetrics(_, _, _, _, _, _, _)
ApplyMetrics(st, field, metrics, dateField, depth, fieldStats, analysisFields) ==
  IF metrics = <<>> THEN st
  ELSE ApplyMetrics(
         ApplyMetric(st, field, Head(metrics), dateField, depth, fieldStats, analysisFields),
         field, Tail(metrics), dateField, depth, fieldStats, analysisFields)

\* the body of analysisFields.forEach for one focus area
ApplyField(st, field, config, depth, fieldTypes, fieldStats, analysisFields) ==
  IF st.threw THEN st
  ELSE IF field \notin DOMAIN fieldTypes \/ fieldTypes[field].type # "numeric"
  THEN [st EXCEPT !.entries = (field :> ErrorEntry("missing or non-numeric")) @@ @]
  ELSE IF config.malformed = "metrics:string"
       THEN \* targetMetrics.forEach is not a function
            [st EXCEPT !.threw = TRUE]
       ELSE ApplyMetrics(
              IF field \in DOMAIN st.entries THEN st
              ELSE [st EXCEPT !.entries = (field :> EmptyEntry) @@ @],
              field, config.metrics, config.dateField, depth, fieldStats, analysisFields)

RECURSIVE ApplyFields(_, _, _, _, _, _, _)
ApplyFields(st, todo, config, depth, fieldTypes, fieldStats, analysisFields) ==
  IF todo = <<>> THEN st
  ELSE ApplyFields(
         ApplyField(st, Head(todo), config, depth, fieldTypes, fieldStats, analysisFields),
         Tail(todo), config, depth, fieldTypes, fieldStats, analysisFields)

RECURSIVE ApplyPlan(_, _, _, _, _, _)
ApplyPlan(st, plan, depth, fieldTypes, fieldStats, analysisFields) ==
  IF plan = <<>> \/ st.threw THEN st
  ELSE IF Head(plan).malformed = "config:null"
       THEN \* config.metrics: cannot read properties of null
            [st EXCEPT !.threw = TRUE]
       ELSE ApplyPlan(
              ApplyFields(st, analysisFields, Head(plan), depth, fieldTypes, fieldStats,
                          analysisFields),
              Tail(plan), depth, fieldTypes, fieldStats, analysisFields)

NoEntries == [f \in {} |-> EmptyEntry]

\* the metrics object and the dataset at the return statement, or at the
\* TypeError that ends the call; focusAreas.join is not a function when
\* focusAreas is no array
RunPlan(data, plan, depth, fieldTypes, fieldStats, analysisFields, focusAreasIsArray) ==
  IF plan = <<>>
  THEN [data |-> data,
        entries |-> IF focusAreasIsArray
                    THEN [f \in Range(analysisFields) |->
                            ErrorEntry("Unsupported focus areas")]
                    ELSE NoEntries,
        hasRatio |-> FALSE, ratio |-> FracZero,
        threw |-> ~focusAreasIsArray /\ analysisFields # <<>>]
  ELSE ApplyPlan([data |-> data, entries |-> NoEntries, hasRatio |-> FALSE,
                  ratio |-> FracZero, threw |-> FALSE],
                 plan, depth, fieldTypes, fieldStats, analysisFields)

----------------------------------------------------------------------------
(* The value analyzeDynamically resolves to.  keys is the set of its       *)
(* properties: {"error"} for the error value, the nine keys of Findings    *)
(* otherwise.                                                               *)

FindingsKeys ==
  {"fieldTypes", "fieldStats", "metrics", "timeSeries", "relationships", "patterns",
   "anomalies", "dataQuality", "businessContext"}

NoResult ==
  [keys |-> {}, error |-> "", fieldTypes |-> <<>>, fieldStats |-> <<>>, metrics |-> <<>>,
   performance_ratio |-> [has |-> FALSE, value |-> FracZero],
   timeSeries |-> <<>>, relationships |-> <<>>, patterns |-> <<>>, anomalies |-> <<>>,
   dataQuality |-> <<>>, businessContext |-> <<>>]

ErrorResult(msg) == [NoResult EXCEPT !.keys = {"error"}, !.error = msg]

\* before: the dataset the code before the await read; now: the dataset when
\* the plan arrives (the same array object)
Findings(before, now, plan, depth, targetFields, focusAreasIsArray) ==
  LET fields == Fields(before)
      fieldTypes == FieldTypes(before)
      fieldStats == FieldStats(before, targetFields)
      statKeys == StatKeys(before, targetFields)
      analysisFields == AnalysisFields(before, targetFields)
      st == RunPlan(now, plan, depth, fieldTypes, fieldStats, analysisFields,
                    focusAreasIsArray)
  IN  [data |-> st.data,
       threw |-> st.threw,
       value |->
         [keys |-> FindingsKeys, error |-> "",
          fieldTypes |-> fieldTypes,
          fieldStats |-> fieldStats,
          metrics |-> st.entries,
          performance_ratio |-> [has |-> st.hasRatio, value |-> st.ratio],
          timeSeries |-> TimeSeries(before, targetFields),
          relationships |-> relationships(st.data, fields, fieldTypes),
          patterns |-> patterns(st.data, fields, fieldTypes),
          anomalies |-> anomalies(st.data, statKeys, fieldStats),
          dataQuality |-> dataQuality(st.data, fields),
          businessContext |-> businessContext(fields, fieldTypes)]]

----------------------------------------------------------------------------
(* inferFieldMeanings.                                                      *)

Kw_identifier == <<<<"i", "d">>, <<"n", "u", "m", "b", "e", "r">>>>
Kw_error ==
  <<<<"e", "r", "r", "o", "r">>, <<"f", "a", "i", "l", "e", "d">>,
    <<"i", "s", "s", "u", "e">>, <<"d", "e", "f", "e", "c", "t">>>>
Kw_incident ==
  <<<<"i", "n", "c", "i", "d", "e", "n", "t">>, <<"t", "i", "c", "k", "e", "t">>,
    <<"c", "a", "s", "e">>, <<"r", "e", "s", "o", "l", "v", "e", "d">>>>
Kw_percentage ==
  <<<<"r", "a", "t", "e">>, <<"p", "e", "r", "c", "e", "n", "t">>,
    <<"r", "a", "t", "i", "o">>>>
Kw_performance ==
  <<<<"r", "e", "s", "o", "l", "v", "e", "d">>, <<"t", "i", "m", "e">>,
    <<"c", "o", "u", "n", "t">>, <<"e", "f", "f", "i", "c", "i", "e", "n", "c", "y">>>>
Kw_priority ==
  <<<<"p", "r", "i", "o", "r", "i", "t", "y">>, <<"s", "e", "v", "e", "r", "i", "t", "y">>,
    <<"u", "r", "g", "e", "n", "c", "y">>>>
Kw_temporal ==
  <<<<"d", "a", "t", "e">>, <<"t", "i", "m", "e">>,
    <<"t", "i", "m", "e", "s", "t", "a", "m", "p">>>>

\* patterns.<category>.some((p) => fieldLower.includes(p))
SomeIncluded(fieldLower, keywords) ==
  \E i \in DOMAIN keywords : Includes(fieldLower, keywords[i])

\* sequentialPattern(values)
sequentialPattern(values) ==
  IF Len(values) < 2 THEN FALSE
  ELSE LET coerced == SelectSeq([i \in DOMAIN values |-> ToNumber(values[i])],
                                LAMBDA x : x.ok)
           numericValues == [i \in DOMAIN coerced |-> coerced[i].n]
       IN  IF Len(numericValues) < 2 THEN FALSE
           ELSE LET m == Len(numericValues) - 1
                    diffs == [i \in 1..m |-> numericValues[i + 1] - numericValues[i]]
                    S == SumSeq(diffs)
                \* |diff - S/m| < (S/m) * 0.1  <=>  10 * |m*diff - S| < S
                IN  \A i \in 1..m : 10 * Abs(m * diffs[i] - S) < S

\* the else-if chain of inferFieldMeanings: inferredPurpose of one field
InferredPurpose(field, data) ==
  LET fieldLower == ToLowerCase(Chars(field))
      \* data.map((row) => row[field]).filter((v) => v !== undefined)
      values == SelectSeq(Column(data, field), LAMBDA v : v # Undef)
      isSequential == IF Len(values) > 1 THEN sequentialPattern(values) ELSE FALSE
      hasCategories == IF Len(values) > 0
                       THEN 2 * Cardinality(Range(values)) < Len(values) ELSE FALSE
  IN  IF SomeIncluded(fieldLower, Kw_identifier) THEN "identifier"
      ELSE IF SomeIncluded(fieldLower, Kw_error) THEN "error_metric"
      ELSE IF SomeIncluded(fieldLower, Kw_incident) THEN "incident_metric"
      ELSE IF SomeIncluded(fieldLower, Kw_percentage) THEN "percentage_metric"
      ELSE IF SomeIncluded(fieldLower, Kw_performance) THEN "performance_metric"
      ELSE IF SomeIncluded(fieldLower, Kw_temporal) THEN "temporal"
      ELSE IF isSequential THEN "sequential/temporal"
      ELSE IF hasCategories THEN "categorical_grouping"
      ELSE "measurement/metric"

\* the businessRole that goes with each inferredPurpose
BusinessRole(purpose) ==
  CASE purpose = "identifier" -> "tracking/reference"
    [] purpose = "error_metric" -> "quality_indicator"
    [] purpose = "incident_metric" -> "incident_tracking"
    [] purpose = "percentage_metric" -> "ratio_indicator"
    [] purpose = "performance_metric" -> "efficiency_indicator"
    [] purpose = "temporal" -> "time_tracking"
    [] purpose = "sequential/temporal" -> "progression_tracking"
    [] purpose = "categorical_grouping" -> "classification"
    [] purpose = "measurement/metric" -> "quantitative_indicator"

NoMeanings == [called |-> FALSE, error |-> "", fields |-> <<>>, byField |-> <<>>]

\* inferFieldMeanings(fields); isArray = Array.isArray(fields)
inferFieldMeaningsValue(isArray, fields, data) ==
  IF ~isArray \/ Len(fields) = 0
  THEN [called |-> TRUE, error |-> "Invalid or empty fields array", fields |-> fields,
        byField |-> <<>>]
  ELSE [called |-> TRUE, error |-> "", fields |-> fields,
        byField |-> [f \in Range(fields) |->
           [fieldName |-> f,
            inferredPurpose |-> InferredPurpose(f, data),
            businessRole |-> BusinessRole(InferredPurpose(f, data))]]]

----------------------------------------------------------------------------
(* Bounds and the inputs drawn from them.                                   *)

MaxRecords == 2   \* longest dataset of the exhaustive family
LongLen == 6      \* length of the datasets of the outlier family
MaxTargets == 2   \* longest targetFields array
MaxMetrics == 1   \* longest metrics list of a plan entry
MaxAreas == 1     \* most focus areas in a plan
MaxVector == 3    \* longest operand of a correlation call on its own
MaxPair == 3      \* records of a dataset of two numeric fields with gaps
MaxNamed == 3     \* records of a dataset with an identifier and two temporal names
MaxToolCalls == 2 \* most tool calls in one model completion

\* the invocations of analyzeDynamically that may be in flight
Calls == {1, 2}

D1 == Str("2024-01-01")
D2 == Str("2024-02-01")
D3 == Str("2024-03-01")

SmallRecords ==
  [date : {Undef, D1, D2}, resolved : {Null, Num(-1), Num(1)}, score : {Num(2), Str("a")}]

SeqsUpTo(S, n) == UNION {[1..k -> S] : k \in 0..n}

SmallDatasets == SeqsUpTo(SmallRecords, MaxRecords)

\* the records of the scenario of spec section 8, in every input order
ScenarioRecords ==
  <<[date |-> D1, resolved |-> Num(10), score |-> Undef],
    [date |-> D2, resolved |-> Num(20), score |-> Undef],
    [date |-> D3, resolved |-> Num(30), score |-> Undef]>>

ScenarioDatasets ==
  {[i \in 1..3 |-> ScenarioRecords[p[i]]] :
     p \in {q \in [1..3 -> 1..3] : \A i, j \in 1..3 : q[i] = q[j] => i = j}}

\* LongLen records: score is -1 but for at most one record, where it is 1;
\* the first late records are dated after the others
LongDatasets ==
  {[i \in 1..LongLen |->
      [date |-> IF i <= late THEN D2 ELSE D1,
       resolved |-> Num(-1),
       score |-> IF i = high THEN Num(1) ELSE Num(-1)]] :
     late \in 0..LongLen, high \in 0..LongLen}

Datasets == SmallDatasets \cup ScenarioDatasets \cup LongDatasets

\* records of two fields, each a number or null
PairRecords ==
  [date : {Undef}, resolved : {Null, Num(1), Num(2)}, score : {Null, Num(1), Num(2)}]

\* the scenario x = [1,2,3,4], y = [2,4,6,8] of spec section 8, x as resolved
\* and y as score
PairScenario ==
  [i \in 1..4 |-> [date |-> Undef, resolved |-> Num(i), score |-> Num(2 * i)]]

PairDatasets == [1..MaxPair -> PairRecords] \cup {PairScenario}

\* the same datasets and the scenario in reverse: 4,3,2,1 and 8,6,4,2
SequenceDatasets == PairDatasets \cup {[i \in 1..4 |-> PairScenario[5 - i]]}

\* records with an identifier name and two temporal names, each field holding
\* numbers or strings
NamedRecords ==
  [date : {D1, D2}, ticketId : {Num(1), Str("a")},
   createdTime : {Num(1), Str("a"), Str("b")}]

NamedDatasets == [1..MaxNamed -> NamedRecords]

\* the numbers in the operands of a correlation call on its own
VectorValues == {-1, 1, 2}

TargetNames == {"resolved", "owner"}

\* arrays of distinct field names
TargetChoices ==
  {t \in SeqsUpTo(TargetNames, MaxTargets) : \A i, j \in DOMAIN t : t[i] = t[j] => i = j}

MetricNames == {"sum", "avg", "time_series", "ratio", "median"}

\* a focus area with a config of the documented shape
PlanEntries ==
  [area : {"trend"}, malformed : {""},
   metrics : SeqsUpTo(MetricNames, MaxMetrics), dateField : {"", "date"}]

\* JSON the parse accepts and the plan loop cannot read: {"trend": null} and
\* {"trend": {"metrics": "sum"}}
MalformedEntries ==
  [area : {"trend"}, malformed : {"config:null", "metrics:string"},
   metrics : {<<>>}, dateField : {""}]

\* the plans of the documented shape; <<>> is the empty plan {} of every
\* failure
Plans == SeqsUpTo(PlanEntries, MaxAreas)

\* the empty plan and the plan {trend: {metrics: ["sum"]}}
NamedPlans ==
  {plan \in Plans : plan # <<>> => (plan[1].metrics = <<"sum">> /\ plan[1].dateField = "")}

\* every object callAIToGeneratePlan may resolve to
ParsedPlans == SeqsUpTo(PlanEntries \cup MalformedEntries, MaxAreas)

\* the arguments object of an analyzeDynamically tool call; analysisDepth ""
\* and hasTargetFields FALSE stand for absent properties
ToolArgs ==
  [focusAreasIsArray : BOOLEAN, analysisDepth : {"", "basic"},
   hasTargetFields : BOOLEAN, targetFields : {<<"resolved">>}]

NoToolArgs ==
  [focusAreasIsArray |-> TRUE, analysisDepth |-> "", hasTargetFields |-> FALSE,
   targetFields |-> <<>>]

----------------------------------------------------------------------------
(* The state machine.                                                       *)

----------------------------------------------------------------------------
(* runAgent: the tool loop. The tools are taken by their outcomes: what they *)
(* return or throw, and what the loop stores in analysisResults.            *)

maxIterations == 3

\* a tool call of a completion: parses = JSON.parse(arguments) succeeds,
\* dataFindings and userIntent = the argument of that name is truthy
ToolCalls ==
  [name : {"analyzeDynamically", "inferFieldMeanings", "buildDeveloperResponse", "unknown"},
   parses : {TRUE}, dataFindings : {FALSE}, userIntent : {FALSE}]
  \cup [name : {"generateDynamicInsights"}, parses : {TRUE},
        dataFindings : BOOLEAN, userIntent : BOOLEAN]
  \cup [name : {"buildDeveloperResponse"}, parses : {FALSE},
        dataFindings : {FALSE}, userIntent : {FALSE}]

\* what client.chat.completions.create gives: fails = the promise rejects or
\* choices[0] is undefined; tool_calls <<>> = no tool call
Responses ==
  {[fails |-> TRUE, tool_calls |-> <<>>]}
  \cup {[fails |-> FALSE, tool_calls |-> s] : s \in SeqsUpTo(ToolCalls, MaxToolCalls)}

\* before runAgent is called. dataAnalysis: "undefined", "findings" (an
\* object with metrics) or "error" ({error}); insights: "undefined", "error"
\* ({error}), "planNoViz" (a valid plan, visualizationStrategies empty) or
\* "plan"; toolResult: the content of the last tool message
NoAgent ==
  [pc |-> "idle", iteration |-> 0, completions |-> 0, pending |-> <<>>, met |-> "",
   dataAnalysis |-> "undefined", fieldSemantics |-> FALSE, insights |-> "undefined",
   toolResult |-> "", action |-> "", by |-> ""]

\* a throw with no catch around it: the promise of runAgent rejects
Thrown_NoCatch(a) == [a EXCEPT !.pc = "rejected"]

\* a throw inside the try block: the catch returns {action: "Error", ...}
Thrown(a) == [a EXCEPT !.pc = "returned", !.action = "Error", !.by = "catch"]

\* return {action: "success", action_input: ...} of buildDeveloperResponse
\* (by = "developer") or of buildFallbackResponse (by = "fallback")
Return(a, by) == [a EXCEPT !.pc = "returned", !.action = "success", !.by = by]

\* buildDeveloperResponse(insights): naturalMessage reads
\* insights.keyFindings.length, a TypeError unless insights is a plan, and
\* f.description of every finding, a TypeError for a null finding
BuildDeveloperResponse(a, findingsOk) ==
  IF a.insights \in {"plan", "planNoViz"} /\ findingsOk
  THEN Return(a, "developer")
  ELSE Thrown(a)

\* runAgent(userInput), up to the while loop
RunAgent(userInputOk, apiKeyOk) ==
  /\ agent.pc = "idle"
  /\ agent' = IF ~userInputOk \/ ~apiKeyOk
               THEN Thrown(agent)
               ELSE [agent EXCEPT !.pc = "loop"]
  /\ UNCHANGED <<hasAttributes, attributes, call, input0, meanings, pearson, doubles>>

\* while (hasMoreToolCalls): the loop without its iteration bound
WhileTest_NoBound ==
  /\ agent.pc = "loop"
  /\ agent' = [agent EXCEPT !.pc = "await", !.iteration = @ + 1, !.completions = @ + 1]
  /\ UNCHANGED <<hasAttributes, attributes, call, input0, meanings, pearson, doubles>>

\* while (hasMoreToolCalls && iteration < maxIterations) { iteration++; ...
\* create(...): hasMoreToolCalls is false only on the way out by break
WhileTest ==
  /\ agent.pc = "loop"
  /\ agent' = IF agent.iteration < maxIterations
               THEN [agent EXCEPT !.pc = "await", !.iteration = @ + 1,
                                  !.completions = @ + 1]
               ELSE [agent EXCEPT !.pc = "fallback"]
  /\ UNCHANGED <<hasAttributes, attributes, call, input0, meanings, pearson, doubles>>

\* the completion settles
Completion(response) ==
  /\ agent.pc = "await"
  /\ agent' = IF response.fails THEN Thrown(agent)
               ELSE IF response.tool_calls = <<>>
               THEN [agent EXCEPT !.pc = "fallback"]
               ELSE [agent EXCEPT !.pc = "tools", !.pending = response.tool_calls]
  /\ UNCHANGED <<hasAttributes, attributes, call, input0, meanings, pearson, doubles>>

\* the outcomes of the tool of the call tc
Outcomes(tc) ==
  CASE tc.name = "analyzeDynamically" -> {"findings", "error", "throws"}
    [] tc.name = "inferFieldMeanings" -> {"meanings", "throws"}
    [] tc.name = "generateDynamicInsights" -> {"error", "planNoViz", "plan"}
    [] tc.name = "buildDeveloperResponse" -> {"findingsOk", "nullFinding"}
    [] OTHER -> {"none"}

\* one turn of for (const toolCall of responseMessage.tool_calls)
ToolCall(outcome) ==
  /\ agent.pc = "tools"
  /\ agent.pending # <<>>
  /\ outcome \in Outcomes(Head(agent.pending))
  /\ LET tc == Head(agent.pending)
         next == [agent EXCEPT !.pending = Tail(@)]
         sw == [next EXCEPT !.met = tc.name]
     IN  agent' =
           IF ~tc.parses THEN next
           ELSE CASE tc.name = "analyzeDynamically" ->
                       IF outcome = "throws" THEN Thrown(sw)
                       ELSE [sw EXCEPT !.dataAnalysis = outcome, !.toolResult = outcome]
                  [] tc.name = "inferFieldMeanings" ->
                       IF outcome = "throws" THEN Thrown(sw)
                       ELSE [sw EXCEPT !.fieldSemantics = TRUE, !.toolResult = outcome]
                  [] tc.name = "generateDynamicInsights" ->
                       IF ~tc.dataFindings /\ agent.dataAnalysis # "findings"
                       THEN [sw EXCEPT !.toolResult = "Missing dataFindings"]
                       ELSE IF ~tc.userIntent
                       THEN [sw EXCEPT !.insights = "error", !.toolResult = "error"]
                       ELSE [sw EXCEPT !.insights = outcome, !.toolResult = outcome]
                  [] tc.name = "buildDeveloperResponse" ->
                       BuildDeveloperResponse(sw, outcome = "findingsOk")
                  [] OTHER -> sw
  /\ UNCHANGED <<hasAttributes, attributes, call, input0, meanings, pearson, doubles>>

\* after the for loop: if (analysisResults.insights?.visualizationStrategies?.length)
AfterToolCalls(findingsOk) ==
  /\ agent.pc = "tools"
  /\ agent.pending = <<>>
  /\ agent' = IF agent.insights = "plan"
               THEN BuildDeveloperResponse(agent, findingsOk)
               ELSE [agent EXCEPT !.pc = "loop"]
  /\ UNCHANGED <<hasAttributes, attributes, call, input0, meanings, pearson, doubles>>

\* return buildFallbackResponse(analysisResults, userInput)
Fallback ==
  /\ agent.pc = "fallback"
  /\ agent' = Return(agent, "fallback")
  /\ UNCHANGED <<hasAttributes, attributes, call, input0, meanings, pearson, doubles>>

\* no double-precision analysis yet, for the column values
NoDoubles == [values |-> <<>>, called |-> FALSE, anomalies |-> {}]

\* no correlation call yet, for the operands x and y
NoCorr ==
  [x |-> <<>>, y |-> <<>>, called |-> FALSE,
   xy |-> CorrZero, yx |-> CorrZero, xx |-> CorrZero]

IdleCall ==
  [pc |-> "idle", via |-> "", toolArgs |-> NoToolArgs,
   focusAreasIsArray |-> TRUE, userPrompt |-> "", depth |-> DepthString("detailed"),
   targetFields |-> <<>>, before |-> <<>>, plannerCalled |-> FALSE, plan |-> <<>>,
   result |-> NoResult]

Init ==
  /\ hasAttributes \in BOOLEAN
  /\ attributes \in (IF hasAttributes THEN Datasets ELSE {<<>>})
  /\ input0 = attributes
  /\ call = [c \in Calls |-> IdleCall]
  /\ meanings = NoMeanings
  /\ pearson = NoCorr
  /\ agent = NoAgent
  /\ doubles = NoDoubles

\* the guard without its length test: if (!data) return {error: ...}
Invoke_NoLengthTest(c, via, toolArgs, focusAreasIsArray, userPrompt, depth, targetFields) ==
  /\ call[c].pc = "idle"
  /\ LET started == [IdleCall EXCEPT !.via = via, !.toolArgs = toolArgs,
                       !.focusAreasIsArray = focusAreasIsArray, !.userPrompt = userPrompt,
                       !.depth = depth, !.targetFields = targetFields,
                       !.before = attributes]
     IN  IF ~hasAttributes
         THEN call' = [call EXCEPT ![c] =
                [started EXCEPT !.pc = "done",
                                !.result = ErrorResult("Invalid or empty data source")]]
         ELSE call' = [call EXCEPT ![c] =
                [started EXCEPT !.pc = "awaitPlan", !.plannerCalled = TRUE]]
  /\ UNCHANGED <<hasAttributes, attributes, input0, meanings, pearson, agent, doubles>>

\* analyzeDynamically(focusAreas, userPrompt, depth, targetFields) up to its
\* await: the empty-dataset return, or the call of callAIToGeneratePlan
Invoke(c, via, toolArgs, focusAreasIsArray, userPrompt, depth, targetFields) ==
  /\ call[c].pc = "idle"
  /\ LET started == [IdleCall EXCEPT !.via = via, !.toolArgs = toolArgs,
                       !.focusAreasIsArray = focusAreasIsArray, !.userPrompt = userPrompt,
                       !.depth = depth, !.targetFields = targetFields,
                       !.before = attributes]
     IN  IF ~hasAttributes \/ Len(attributes) = 0
         THEN call' = [call EXCEPT ![c] =
                [started EXCEPT !.pc = "done",
                                !.result = ErrorResult("Invalid or empty data source")]]
         ELSE call' = [call EXCEPT ![c] =
                [started EXCEPT !.pc = "awaitPlan", !.plannerCalled = TRUE]]
  /\ UNCHANGED <<hasAttributes, attributes, input0, meanings, pearson, agent, doubles>>

\* a caller that passes the four parameters in the order of the signature
AnalyzeDynamically(c, depth, targetFields) ==
  Invoke(c, "direct", NoToolArgs, TRUE, "prompt", DepthString(depth), targetFields)

\* runAgent, case "analyzeDynamically":
\*   analyzeDynamically(args.focusAreas, args.analysisDepth || "detailed",
\*                      args.targetFields || [])
\* the second argument binds to userPrompt, the third to depth, and
\* targetFields takes its default []
RunAgentAnalyze(c, args) ==
  Invoke(c, "runAgent", args, args.focusAreasIsArray,
         IF args.analysisDepth # "" THEN args.analysisDepth ELSE "detailed",
         DepthArray(IF args.hasTargetFields THEN args.targetFields ELSE <<>>),
         <<>>)

\* callAIToGeneratePlan resolves without a request, to {}, when focusAreas is
\* no array or fieldMetadata has no key
PlannerOutputs(c) ==
  IF ~call[c].focusAreasIsArray \/ Fields(call[c].before) = <<>> THEN {<<>>}
  ELSE ParsedPlans

\* the await resolves with plan; the rest of analyzeDynamically runs
PlanReturn(c, plan) ==
  /\ call[c].pc = "awaitPlan"
  /\ plan \in PlannerOutputs(c)
  /\ LET me == call[c]
         f == Findings(me.before, attributes, plan, me.depth, me.targetFields,
                       me.focusAreasIsArray)
     IN  IF f.threw
         THEN \* a TypeError: the promise of analyzeDynamically rejects
              /\ attributes' = f.data
              /\ call' = [call EXCEPT ![c] = [me EXCEPT !.pc = "threw", !.plan = plan]]
         ELSE /\ attributes' = f.data
              /\ call' = [call EXCEPT ![c] = [me EXCEPT !.pc = "done", !.plan = plan,
                                                          !.result = f.value]]
  /\ UNCHANGED <<hasAttributes, input0, meanings, pearson, agent, doubles>>

\* runAgent, case "inferFieldMeanings": inferFieldMeanings(args.fields)
InferFieldMeanings(isArray, fields) ==
  /\ meanings' = inferFieldMeaningsValue(isArray, fields, attributes)
  /\ UNCHANGED <<hasAttributes, attributes, input0, call, pearson, agent, doubles>>

\* one analysis of the loaded dataset
Next ==
  \/ \E depth \in {"basic", "detailed"}, t \in TargetChoices : AnalyzeDynamically(1, depth, t)
  \/ \E args \in ToolArgs : RunAgentAnalyze(1, args)
  \/ \E plan \in ParsedPlans : PlanReturn(1, plan)

Spec == Init /\ [][Next]_vars

\* two analyses in sequence: once the first has returned, the caller repeats it
\* with the same arguments and the planner answers with the same plan
InitTwice == Init /\ attributes \in ScenarioDatasets \cup LongDatasets

AnalyzeAgain ==
  /\ call[1].pc = "done"
  /\ call[1].via = "direct"
  /\ AnalyzeDynamically(2, call[1].depth.str, call[1].targetFields)

NextTwice ==
  \/ \E depth \in {"basic", "detailed"}, t \in TargetChoices : AnalyzeDynamically(1, depth, t)
  \/ \E plan \in Plans : PlanReturn(1, plan)
  \/ AnalyzeAgain
  \/ PlanReturn(2, call[1].plan)

SpecTwice == InitTwice /\ [][NextTwice]_vars

\* inferFieldMeanings on the loaded dataset
MeaningNames ==
  {"incidentCount", "ticketId", "resolved", "date", "score", "owner", "priority",
   "errorRate"}

FieldsChoices == SeqsUpTo(MeaningNames, 1)

NextMeanings ==
  \E isArray \in BOOLEAN, fields \in FieldsChoices : InferFieldMeanings(isArray, fields)

SpecMeanings == Init /\ [][NextMeanings]_vars

\* inferFieldMeanings on a dataset of two numeric fields
InitSequences ==
  /\ hasAttributes = TRUE
  /\ attributes \in SequenceDatasets
  /\ input0 = attributes
  /\ call = [c \in Calls |-> IdleCall]
  /\ meanings = NoMeanings
  /\ pearson = NoCorr
  /\ agent = NoAgent
  /\ doubles = NoDoubles

SpecSequences == InitSequences /\ [][NextMeanings]_vars

\* one analysis of a dataset of two numeric fields
InitPairs ==
  /\ hasAttributes = TRUE
  /\ attributes \in PairDatasets
  /\ input0 = attributes
  /\ call = [c \in Calls |-> IdleCall]
  /\ meanings = NoMeanings
  /\ pearson = NoCorr
  /\ agent = NoAgent
  /\ doubles = NoDoubles

NextPairs ==
  \/ AnalyzeDynamically(1, "detailed", <<>>)
  \/ \E plan \in Plans : PlanReturn(1, plan)

SpecPairs == InitPairs /\ [][NextPairs]_vars

\* one analysis of a dataset with an identifier and two temporal names
InitNamed ==
  /\ hasAttributes = TRUE
  /\ attributes \in NamedDatasets
  /\ input0 = attributes
  /\ call = [c \in Calls |-> IdleCall]
  /\ meanings = NoMeanings
  /\ pearson = NoCorr
  /\ agent = NoAgent
  /\ doubles = NoDoubles

NextNamed ==
  \/ AnalyzeDynamically(1, "detailed", <<>>)
  \/ \E plan \in NamedPlans : PlanReturn(1, plan)

SpecNamed == InitNamed /\ [][NextNamed]_vars

\* one runAgent run
InitAgent ==
  /\ hasAttributes = FALSE
  /\ attributes = <<>>
  /\ input0 = attributes
  /\ call = [c \in Calls |-> IdleCall]
  /\ meanings = NoMeanings
  /\ pearson = NoCorr
  /\ agent = NoAgent
  /\ doubles = NoDoubles

NextAgent ==
  \/ \E userInputOk, apiKeyOk \in BOOLEAN : RunAgent(userInputOk, apiKeyOk)
  \/ WhileTest
  \/ \E response \in Responses : Completion(response)
  \/ \E outcome \in {"findings", "error", "throws", "meanings", "planNoViz", "plan",
                      "findingsOk", "nullFinding", "none"} : ToolCall(outcome)
  \/ \E findingsOk \in BOOLEAN : AfterToolCalls(findingsOk)
  \/ Fallback

\* every pending step of the run is taken in the end: the event loop runs
\* every continuation, and a completion or a tool settles
SpecAgent == InitAgent /\ [][NextAgent]_vars /\ WF_vars(NextAgent)

\* correlation on its own: of x with y, of y with x and of x with itself
Correlate ==
  /\ ~pearson.called
  /\ pearson' = [pearson EXCEPT !.called = TRUE,
                                !.xy = correlation(pearson.x, pearson.y),
                                !.yx = correlation(pearson.y, pearson.x),
                                !.xx = correlation(pearson.x, pearson.x)]
  /\ UNCHANGED <<hasAttributes, attributes, input0, call, meanings, agent, doubles>>

Vectors == SeqsUpTo(VectorValues, MaxVector)

InitCorrelation ==
  /\ hasAttributes = FALSE
  /\ attributes = <<>>
  /\ input0 = attributes
  /\ call = [c \in Calls |-> IdleCall]
  /\ meanings = NoMeanings
  /\ pearson \in {[NoCorr EXCEPT !.x = x, !.y = y] : x, y \in Vectors}
  /\ agent = NoAgent
  /\ doubles = NoDoubles

SpecCorrelation == InitCorrelation /\ [][Correlate]_vars

----------------------------------------------------------------------------
(* The anomaly threshold as the engine computes it, in IEEE 754 doubles.    *)
(* The analysis above is in exact arithmetic; here every operation rounds   *)
(* to nearest, ties to even, as a JavaScript number does.  Mantissas are    *)
(* sequences of bits because they exceed the integers of the checker.       *)
(***************************************************************************)

\* natural numbers of any size: bits, least significant first, no leading zero
\* the highest index in lo..hi of a set bit of a, 0 if there is none
RECURSIVE TopBit(_, _, _)
TopBit(a, lo, hi) ==
  IF lo = hi THEN (IF a[lo] = 1 THEN lo ELSE 0)
  ELSE LET mid == (lo + hi) \div 2
           h == TopBit(a, mid + 1, hi)
       IN  IF h # 0 THEN h ELSE TopBit(a, lo, mid)

Trim(a) == IF a = <<>> THEN a ELSE SubSeq(a, 1, TopBit(a, 1, Len(a)))

RECURSIVE Bits(_)
Bits(n) == IF n = 0 THEN <<>> ELSE <<n % 2>> \o Bits(n \div 2)

Bit(a, i) == IF i <= Len(a) THEN a[i] ELSE 0

\* bits lo..hi of a + b + c (or of a - b - c when minus) and the carry (borrow) out
RECURSIVE AddRange(_, _, _, _, _, _)
AddRange(a, b, lo, hi, c, minus) ==
  IF lo = hi
  THEN LET t == IF minus THEN Bit(a, lo) - Bit(b, lo) - c ELSE Bit(a, lo) + Bit(b, lo) + c
       IN  [s |-> <<(t + 2) % 2>>, c |-> IF minus THEN (IF t < 0 THEN 1 ELSE 0) ELSE t \div 2]
  ELSE LET mid == (lo + hi) \div 2
           L == AddRange(a, b, lo, mid, c, minus)
           R == IF L.c = 0 THEN AddRange(a, b, mid + 1, hi, 0, minus)
                ELSE AddRange(a, b, mid + 1, hi, 1, minus)
       IN  [s |-> L.s \o R.s, c |-> R.c]

BigAdd(a, b) ==
  LET n == IF Len(a) > Len(b) THEN Len(a) ELSE Len(b)
      r == AddRange(a, b, 1, n, 0, FALSE)
  IN  IF n = 0 THEN <<>> ELSE IF r.c = 1 THEN r.s \o <<1>> ELSE r.s

\* a - b for a >= b
BigSub(a, b) == IF a = <<>> THEN a ELSE Trim(AddRange(a, b, 1, Len(a), 0, TRUE).s)

\* -1, 0, 1 as bits lo..hi of a are below, equal to, above those of b
RECURSIVE CompareRange(_, _, _, _)
CompareRange(a, b, lo, hi) ==
  IF lo = hi THEN (IF a[lo] < b[lo] THEN -1 ELSE IF a[lo] > b[lo] THEN 1 ELSE 0)
  ELSE LET mid == (lo + hi) \div 2
           h == CompareRange(a, b, mid + 1, hi)
       IN  IF h # 0 THEN h ELSE CompareRange(a, b, lo, mid)

BigLess(a, b) ==
  IF Len(a) # Len(b) THEN Len(a) < Len(b)
  ELSE a # <<>> /\ CompareRange(a, b, 1, Len(a)) = -1

\* a * 2^k
Shl(a, k) == IF a = <<>> THEN a ELSE [i \in 1..k |-> 0] \o a

\* the sum of b * 2^(i-1) over the bits i in lo..hi of a that are set
RECURSIVE MulRange(_, _, _, _)
MulRange(a, b, lo, hi) ==
  IF lo = hi THEN (IF a[lo] = 1 THEN Shl(b, lo - 1) ELSE <<>>)
  ELSE LET mid == (lo + hi) \div 2
       IN  BigAdd(MulRange(a, b, lo, mid), MulRange(a, b, mid + 1, hi))

BigMul(a, b) == IF a = <<>> \/ b = <<>> THEN <<>> ELSE MulRange(a, b, 1, Len(a))

\* long division of a by b, the bits hi down to lo of a brought down one by
\* one onto the quotient and remainder st reached above them (a remainder
\* is below b)
RECURSIVE DivSteps(_, _, _, _, _)
DivSteps(a, b, hi, lo, st) ==
  IF hi = lo
  THEN LET r2 == Trim(<<a[hi]>> \o st.r)
       IN  IF ~BigLess(r2, b)
           THEN [q |-> <<1>> \o st.q, r |-> BigSub(r2, b)]
           ELSE [q |-> IF st.q = <<>> THEN <<>> ELSE <<0>> \o st.q, r |-> r2]
  ELSE LET mid == (hi + lo) \div 2
           above == DivSteps(a, b, hi, mid + 1, st)
       IN  IF BigLess(above.r, b) THEN DivSteps(a, b, mid, lo, above) ELSE above

\* floor(a / b) and a mod b
DivMod(a, b) ==
  IF a = <<>> THEN [q |-> <<>>, r |-> <<>>]
  ELSE DivSteps(a, b, Len(a), 1, [q |-> <<>>, r |-> <<>>])

\* digit-by-digit square root of a, the bit pairs hi down to lo of a brought
\* down onto the root and remainder st reached above them (a remainder is at
\* most twice the root)
RECURSIVE SqrtSteps(_, _, _, _)
SqrtSteps(a, hi, lo, st) ==
  IF hi = lo
  THEN LET R == Trim(<<a[2 * hi - 1], Bit(a, 2 * hi)>> \o st.r)
           t == <<1, 0>> \o st.s
       IN  IF ~BigLess(R, Trim(t))
           THEN [s |-> <<1>> \o st.s, r |-> BigSub(R, Trim(t))]
           ELSE [s |-> IF st.s = <<>> THEN <<>> ELSE <<0>> \o st.s, r |-> R]
  ELSE LET mid == (hi + lo) \div 2
           above == SqrtSteps(a, hi, mid + 1, st)
       IN  IF BigLess(Shl(above.s, 1), above.r) THEN above
           ELSE SqrtSteps(a, mid, lo, above)

\* floor(sqrt(a)) and a - floor(sqrt(a))^2
SqrtRem(a) ==
  IF a = <<>> THEN [s |-> <<>>, r |-> <<>>]
  ELSE SqrtSteps(a, (Len(a) + 1) \div 2, 1, [s |-> <<>>, r |-> <<>>])

\* IEEE 754 binary64 numbers: (-1)^neg * m * 2^e, m of at most 53 bits (54 for
\* 2^53); the exponent range plays no part for the values of the model
MantissaBits == 53

FlZero == [neg |-> FALSE, m |-> <<>>, e |-> 0]

\* round to nearest, ties to even; sticky = bits below M were lost
RoundToDouble(neg, M, E, sticky) ==
  LET L == Len(M)
      d == L - MantissaBits
  IN  IF M = <<>> THEN FlZero
      ELSE IF d <= 0 THEN [neg |-> neg, m |-> M, e |-> E]
      ELSE LET kept == SubSeq(M, d + 1, L)
               rest == sticky \/ \E i \in 1..(d - 1) : M[i] = 1
               up == M[d] = 1 /\ (rest \/ kept[1] = 1)
           IN  [neg |-> neg, m |-> IF up THEN BigAdd(kept, <<1>>) ELSE kept, e |-> E + d]

FlOfInt(n) == [neg |-> n < 0, m |-> Bits(IF n < 0 THEN -n ELSE n), e |-> 0]

FlNeg(x) == IF x.m = <<>> THEN x ELSE [x EXCEPT !.neg = ~@]

\* the exact sum of two doubles as sign, bits and exponent
ExactSum(x, y) ==
  LET e == IF x.e < y.e THEN x.e ELSE y.e
      X == Shl(x.m, x.e - e)
      Y == Shl(y.m, y.e - e)
  IN  IF x.neg = y.neg THEN [neg |-> x.neg, m |-> BigAdd(X, Y), e |-> e]
      ELSE IF BigLess(X, Y) THEN [neg |-> y.neg, m |-> BigSub(Y, X), e |-> e]
      ELSE [neg |-> x.neg, m |-> BigSub(X, Y), e |-> e]

FlAdd(x, y) ==
  LET s == ExactSum(x, y) IN RoundToDouble(s.neg, s.m, s.e, FALSE)

FlSub(x, y) == FlAdd(x, FlNeg(y))

FlMul(x, y) == RoundToDouble(x.neg # y.neg, BigMul(x.m, y.m), x.e + y.e, FALSE)

\* x / y for y # 0: a quotient of at least MantissaBits + 2 bits, then rounded
FlDiv(x, y) ==
  IF x.m = <<>> THEN FlZero
  ELSE LET k == IF Len(y.m) + MantissaBits + 2 > Len(x.m)
                THEN Len(y.m) + MantissaBits + 2 - Len(x.m) ELSE 0
           qr == DivMod(Shl(x.m, k), y.m)
       IN  RoundToDouble(x.neg # y.neg, qr.q, x.e - y.e - k, qr.r # <<>>)

\* Math.sqrt(x) for x >= 0: a root of at least MantissaBits + 2 bits, rounded
FlSqrt(x) ==
  IF x.m = <<>> THEN FlZero
  ELSE LET odd == x.e % 2 # 0
           M == IF odd THEN Shl(x.m, 1) ELSE x.m
           E == IF odd THEN x.e - 1 ELSE x.e
           k == IF 2 * (MantissaBits + 2) > Len(M)
                THEN (2 * (MantissaBits + 2) - Len(M) + 1) \div 2 ELSE 0
           sr == SqrtRem(Shl(M, 2 * k))
       IN  RoundToDouble(FALSE, sr.s, (E - 2 * k) \div 2, sr.r # <<>>)

\* x > y
FlGreater(x, y) ==
  LET d == ExactSum(x, FlNeg(y)) IN d.m # <<>> /\ ~d.neg

RECURSIVE FlSum(_, _)
FlSum(xs, acc) == IF xs = <<>> THEN acc ELSE FlSum(Tail(xs), FlAdd(acc, Head(xs)))

\* values.reduce((a, b) => a + b, 0) / values.length
FlMean(values) == FlDiv(FlSum(values, FlZero), FlOfInt(Len(values)))

\* variance(values) in doubles.  Math.pow(d, 2) is d * d: for the columns of
\* the model every d is a small integer and its square is exact
FlVariance(values) ==
  LET mean == FlMean(values)
      sq == [i \in DOMAIN values |->
               LET d == FlSub(values[i], mean) IN FlMul(d, d)]
  IN  FlDiv(FlSum(sq, FlZero), FlOfInt(Len(values)))

\* stats.avg + 2 * Math.sqrt(stats.variance)
FlThreshold(values) ==
  FlAdd(FlMean(values), FlMul(FlOfInt(2), FlSqrt(FlVariance(values))))

\* anomalies() for one numeric field without nulls: the record indices whose
\* value is above the threshold
FlAnomalies(values) ==
  LET threshold == FlThreshold(values)
  IN  {i - 1 : i \in {j \in DOMAIN values : FlGreater(values[j], threshold)}}

\* the longest column of the model
MaxColumn == 6

\* the number 2^52 + k, a safe integer of JavaScript
Large(k) == [neg |-> FALSE, m |-> BigAdd(Shl(<<1>>, 52), Bits(k)), e |-> 0]

ColumnValues == {Large(6), Large(11)}

\* analyzeDynamically over records of one numeric field, none of them null:
\* fieldStats[field].avg and .variance, then anomalies(), in double precision
AnalyzeColumn ==
  /\ ~doubles.called
  /\ doubles' = [doubles EXCEPT !.called = TRUE,
                                !.anomalies = FlAnomalies(doubles.values)]
  /\ UNCHANGED <<hasAttributes, attributes, input0, call, meanings, pearson, agent>>

InitColumns ==
  /\ hasAttributes = FALSE
  /\ attributes = <<>>
  /\ input0 = attributes
  /\ call = [c \in Calls |-> IdleCall]
  /\ meanings = NoMeanings
  /\ pearson = NoCorr
  /\ agent = NoAgent
  /\ doubles \in {[NoDoubles EXCEPT !.values = c] :
                    c \in SeqsUpTo(ColumnValues, MaxColumn) \ {<<>>}}

SpecColumns == InitColumns /\ [][AnalyzeColumn]_vars

\* two requests in flight: runAgent handles an analyzeDynamically tool call for
\* each, and the two calls interleave at their awaits
InitConcurrent == Init /\ attributes \in ScenarioDatasets

ConcurrentArgs == {args \in ToolArgs : args.focusAreasIsArray /\ ~args.hasTargetFields}

NextConcurrent ==
  \E c \in Calls :
    \/ \E args \in ConcurrentArgs : RunAgentAnalyze(c, args)
    \/ \E plan \in ParsedPlans : PlanReturn(c, plan)

SpecConcurrent == InitConcurrent /\ [][NextConcurrent]_vars

----------------------------------------------------------------------------
(* The claims.                                                              *)

Finished(c) == call[c].pc = "done" /\ call[c].result.keys = FindingsKeys

\* the plan has an entry that requests metric
Requests(plan, metric) == \E k \in DOMAIN plan : metric \in Range(plan[k].metrics)

\* C1: two analyzeDynamically calls in sequence with the same dataset, plan,
\* target fields and depth return identical Findings.
C1_SecondCallIdentical ==
  (/\ Finished(1) /\ Finished(2)
   /\ call[2].depth = call[1].depth
   /\ call[2].targetFields = call[1].targetFields
   /\ call[2].plan = call[1].plan)
  => call[2].result = call[1].result

\* C2: when an analyzeDynamically call has returned, the dataset holds the
\* records it held when the call began, in the same order.
C2_DatasetUnchanged ==
  \A c \in Calls : call[c].pc = "done" => attributes = call[c].before

\* C3: inferFieldMeanings gives the field name "incidentCount" the
\* inferredPurpose "incident_metric".
C3_IncidentCount ==
  (meanings.called /\ meanings.error = "" /\ "incidentCount" \in DOMAIN meanings.byField)
  => meanings.byField["incidentCount"].inferredPurpose = "incident_metric"

\* C4: with an absent or empty dataset analyzeDynamically returns exactly
\* {error: "Invalid or empty data source"}: no planner call, no fieldTypes,
\* stats or metrics, and the call is over at once.
C4_EmptyDatasetError ==
  \A c \in Calls :
    (call[c].pc # "idle" /\ (~hasAttributes \/ Len(call[c].before) = 0))
    => /\ call[c].pc = "done"
       /\ call[c].result = ErrorResult("Invalid or empty data source")
       /\ call[c].result.keys = {"error"}
       /\ ~call[c].plannerCalled
       /\ attributes = call[c].before

C4_Witness ==
  /\ hasAttributes /\ Len(input0) = 0
  /\ call[1].pc = "done" /\ call[1].result.error = "Invalid or empty data source"

\* x > avg + 2 * sqrt(variance), for an integer x and fractions avg, variance
StrictlyAbove(x, avg, var) ==
  LET d == x * avg.den - avg.num
  IN  d > 0 /\ d * d * var.den > 4 * var.num * avg.den * avg.den

HasAnomaly(c, f, i) ==
  \E k \in DOMAIN call[c].result.anomalies :
     call[c].result.anomalies[k].field = f /\ call[c].result.anomalies[k].record = i - 1

\* C5: for a field with numeric stats, record i has an anomaly entry exactly
\* when it holds a number strictly above avg + 2*sqrt(variance); a null or
\* absent value is never flagged.
C5_FlaggedIffAbove ==
  \A c \in Calls : Finished(c) =>
    \A f \in DOMAIN call[c].result.fieldStats :
      call[c].result.fieldStats[f].kind = "numeric" =>
        \A i \in 1..Len(attributes) :
          HasAnomaly(c, f, i)
          <=> (/\ IsNumber(Get(attributes[i], f))
               /\ StrictlyAbove(Get(attributes[i], f).n,
                                call[c].result.fieldStats[f].avg,
                                call[c].result.fieldStats[f].variance))

\* C6: every field classified numeric, target field or not, gets exactly one
\* anomaly entry for each record value above avg + 2*sqrt(variance).
C6_EveryNumericFieldCovered ==
  \A c \in Calls : Finished(c) =>
    \A f \in DOMAIN call[c].result.fieldTypes :
      call[c].result.fieldTypes[f].type = "numeric" =>
        \A i \in 1..Len(attributes) :
          (/\ IsNumber(Get(attributes[i], f))
           /\ StrictlyAbove(Get(attributes[i], f).n,
                            NumericStats(Values(attributes, f)).avg,
                            NumericStats(Values(attributes, f)).variance))
          => Cardinality({k \in DOMAIN call[c].result.anomalies :
                            /\ call[c].result.anomalies[k].field = f
                            /\ call[c].result.anomalies[k].record = i - 1}) = 1

\* C7: the record index of an anomaly is the position of the flagged record
\* in the input order, and the anomalies of one field come in input order.
C7_AnomalyIndexIsInputPosition ==
  \A c \in Calls : Finished(c) =>
    LET an == call[c].result.anomalies
    IN  /\ \A k \in DOMAIN an :
             /\ an[k].record + 1 \in DOMAIN input0
             /\ input0[an[k].record + 1] = attributes[an[k].record + 1]
        /\ \A k, l \in DOMAIN an :
             (k < l /\ an[k].field = an[l].field) => an[k].record < an[l].record

\* the timestamp of a trend entry's date, a missing date counting as 0
Timestamp(v) == IF v = Undef THEN 0 ELSE DateGetTime(v.s)

\* the last plan entry whose time_series metric has a dateField
SeriesEntries(plan) ==
  {k \in DOMAIN plan : "time_series" \in Range(plan[k].metrics) /\ plan[k].dateField # ""}

\* trend holds one {date, value} per record of data, in non-decreasing order
\* of the timestamps
TrendOfRecords(series, data, f, dateField) ==
  LET Entry(i) == [date |-> Get(data[i], dateField), value |-> Get(data[i], f)]
  IN  /\ Len(series) = Len(data)
      /\ \A i \in 1..(Len(series) - 1) :
           Timestamp(series[i].date) <= Timestamp(series[i + 1].date)
      /\ \A i \in DOMAIN data :
           Cardinality({j \in DOMAIN series : series[j] = Entry(i)})
             = Cardinality({j \in DOMAIN data : Entry(j) = Entry(i)})

C9_BasicSkipsTimeSeries ==
  \A c \in Calls :
    (Finished(c) /\ call[c].via = "runAgent" /\ call[c].toolArgs.analysisDepth = "basic")
    => \A f \in DOMAIN call[c].result.metrics : ~call[c].result.metrics[f].hasTrend

\* C10: when the plan requests ratio, performance_ratio is
\* sum(analysisFields[0]) / sum(analysisFields[1]) if at least two analysis
\* fields are selected, 0 if one of the two sums is zero or undefined, and it is
\* not computed with fewer than two analysis fields.
C10_PerformanceRatio ==
  \A c \in Calls :
    (Finished(c) /\ Requests(call[c].plan, "ratio"))
    => LET af == AnalysisFields(call[c].before, call[c].targetFields)
           stats == call[c].result.fieldStats
           Sum(f) == IF stats[f].kind = "numeric" THEN stats[f].sum ELSE 0
           ratio == call[c].result.performance_ratio
       IN  IF Len(af) < 2 THEN ~ratio.has
           ELSE /\ ratio.has
                /\ ratio.value = IF Sum(af[1]) # 0 /\ Sum(af[2]) # 0
                                 THEN Frac(Sum(af[1]), Sum(af[2])) ELSE FracZero

\* the call has come back from the planner: with a value or with a TypeError
Returned(c) == call[c].pc \in {"done", "threw"}

Malformed(plan) == \E k \in DOMAIN plan : plan[k].malformed # ""

\* every analysis field of the call is marked unsupported, and nothing else
\* is in the metrics
MarkedUnsupported(c) ==
  /\ DOMAIN call[c].result.metrics
       = Range(AnalysisFields(call[c].before, call[c].targetFields))
  /\ \A f \in DOMAIN call[c].result.metrics :
       call[c].result.metrics[f] = ErrorEntry("Unsupported focus areas")
  /\ ~call[c].result.performance_ratio.has

\* C11: when the planner yields the empty plan, analyzeDynamically returns
\* full Findings in which every analysis field's metrics entry is the error
\* "Unsupported focus areas" and no other metric is computed.
C11_EmptyPlanMarksFields ==
  \A c \in Calls :
    (Returned(c) /\ call[c].plannerCalled /\ call[c].plan = <<>>)
    => Finished(c) /\ MarkedUnsupported(c)

\* C12: for every plan the planner can return, a malformed non-empty one
\* included (a null config, a metrics entry that is no list),
\* analyzeDynamically completes without throwing and marks the analysis
\* fields with the unsupported-focus-areas error.
C12_MalformedPlanTolerated ==
  \A c \in Calls :
    (Returned(c) /\ call[c].plannerCalled)
    => /\ call[c].pc = "done"
       /\ Malformed(call[c].plan) => MarkedUnsupported(c)

\* C13: with a non-empty plan, every requested target field that is absent
\* from the dataset or not numeric has a metrics entry with the error
\* "missing or non-numeric", and the other requested fields are analysed.
C13_BadTargetFieldMarked ==
  \A c \in Calls :
    (Finished(c) /\ call[c].plan # <<>>)
    => \A k \in DOMAIN call[c].targetFields :
         LET f == call[c].targetFields[k]
         IN  /\ f \in DOMAIN call[c].result.metrics
             /\ call[c].result.metrics[f].error
                  = IF f \in DOMAIN call[c].result.fieldTypes
                       /\ call[c].result.fieldTypes[f].type = "numeric"
                    THEN "" ELSE "missing or non-numeric"

\* C14: with no target fields, the fields that have a metrics entry are
\* exactly the numeric fields with numeric stats; no categorical or text
\* field is among them.
C14_FallbackIsNumericFields ==
  \A c \in Calls :
    (Finished(c) /\ call[c].targetFields = <<>>)
    => DOMAIN call[c].result.metrics
         = {f \in DOMAIN call[c].result.fieldStats :
              /\ call[c].result.fieldTypes[f].type = "numeric"
              /\ call[c].result.fieldStats[f].kind = "numeric"}

\* the records of data that hold a value for f: neither null nor undefined
Observed(data, f) == {i \in DOMAIN data : Get(data[i], f) # Undef /\ Get(data[i], f) # Null}

\* C17: for every field of the first record, totalCount is the number of
\* records with a non-null, non-undefined value, sparsity is
\* (datasetSize - totalCount) / datasetSize and lies in [0, 1], and a field
\* with no observed value has uniqueCount 0 and sparsity 1.
C17_Sparsity ==
  \A c \in Calls : Finished(c) =>
    LET data == call[c].before
        types == call[c].result.fieldTypes
    IN  /\ DOMAIN types = {f \in Range(FieldOrder) : Get(data[1], f) # Undef}
        /\ \A f \in DOMAIN types :
             LET k == Cardinality(Observed(data, f))
             IN  /\ types[f].totalCount = k
                 /\ types[f].sparsity = Frac(Len(data) - k, Len(data))
                 /\ 0 <= types[f].sparsity.num
                 /\ types[f].sparsity.num <= types[f].sparsity.den
                 /\ k = 0 => (types[f].uniqueCount = 0 /\ types[f].sparsity = FracOfInt(1))

\* a finished analysis of two records: resolved is null in both, date is
\* missing in the second
C17_Witness ==
  /\ Finished(1)
  /\ Len(call[1].before) = 2
  /\ {"resolved", "date"} \subseteq DOMAIN call[1].result.fieldTypes
  /\ call[1].result.fieldTypes["resolved"].sparsity = FracOfInt(1)
  /\ call[1].result.fieldTypes["date"].sparsity = Frac(1, 2)

\* the unsupported marking that a failed planner calls for
FailureMarked(c) ==
  (call[c].plan = <<>> \/ Malformed(call[c].plan)) => MarkedUnsupported(c)

\* C15: whatever the planner does (a failure, a malformed output, a request
\* that times out), the await of the plan ends with analyzeDynamically
\* returning Findings, the fields marked by the unsupported error when the
\* planner failed: every step that ends the await of a call ends the call
\* with such Findings.
C15_AwaitEndsInFindings ==
  [][\A c \in Calls :
       (call[c].pc = "awaitPlan" /\ call'[c].pc # "awaitPlan")
       => (Finished(c) /\ FailureMarked(c))']_vars

\* the Findings the call returns when no other call runs between its start
\* and its return
AloneResult(c) ==
  Findings(call[c].before, call[c].before, call[c].plan, call[c].depth,
           call[c].targetFields, call[c].focusAreasIsArray).value

\* C16: of two analyses that interleave at their awaits, each returns the
\* Findings it returns when run alone, whatever the other call's plan.
C16_InterleavedCallsIndependent ==
  \A c \in Calls : Finished(c) => call[c].result = AloneResult(c)

\* n * sum(x^2) - sum(x)^2 is not 0: the variance of x is not 0
NonZeroVariance(x) ==
  Len(x) * SumSeq([i \in DOMAIN x |-> x[i] * x[i]]) # SumSeq(x) * SumSeq(x)

CorrOne == [sign |-> 1, sq |-> FracOfInt(1)]

PatternsOf(c, f) ==
  {k \in DOMAIN call[c].result.patterns : call[c].result.patterns[k].field = f}

\* C19: the patterns list holds a trend entry for a numeric field exactly when
\* the trend t of the field's numeric values, at least 2 of them and in the
\* record order of the dataset given to the call, has |t| > 0.3; the entry's
\* direction is "increasing" for t > 0 and "decreasing" for t < 0 and its
\* strength is |t|.
C19_PatternIffTrendAboveThreshold ==
  \A c \in Calls : Finished(c) =>
    \A f \in DOMAIN call[c].result.fieldTypes :
      call[c].result.fieldTypes[f].type = "numeric" =>
        LET values == NumericValues(call[c].before, f)
            t == trend(values)
        IN  IF Len(values) >= 2 /\ AbsExceeds(t, 3, 10)
            THEN \E k \in PatternsOf(c, f) :
                   /\ PatternsOf(c, f) = {k}
                   /\ call[c].result.patterns[k].type = "trend"
                   /\ call[c].result.patterns[k].direction =
                        (IF t.sign > 0 THEN "increasing" ELSE "decreasing")
                   /\ call[c].result.patterns[k].strength = [sign |-> 1, sq |-> t.sq]
            ELSE PatternsOf(c, f) = {}

\* the records of data that hold a number in both f and g
PairedRecords(data, f, g) ==
  SelectSeq(data, LAMBDA r : IsNumber(Get(r, f)) /\ IsNumber(Get(r, g)))

\* the Pearson correlation of the fields f and g: of the values the records
\* pair
PairedCorrelation(data, f, g) ==
  correlation(NumericValues(PairedRecords(data, f, g), f),
              NumericValues(PairedRecords(data, f, g), g))

\* the entries of the relationships list of call c for the pair of f and g
RelationshipsOf(c, f, g) ==
  {k \in DOMAIN call[c].result.relationships :
     {call[c].result.relationships[k].field1,
      call[c].result.relationships[k].field2} = {f, g}}

\* C18: the relationships list holds an entry for an unordered pair of numeric
\* fields exactly when their Pearson correlation is above 0.5 in absolute
\* value, and then one entry only: its strength is the correlation, in
\* [-1, 1], and its direction "positive" for a correlation > 0 and "negative"
\* otherwise. For x = [1,2,3,4], y = [2,4,6,8] the list is one entry of
\* strength 1 and direction "positive".
C18_RelationshipIffCorrelated ==
  \A c \in Calls : Finished(c) =>
    /\ \A f, g \in DOMAIN call[c].result.fieldTypes :
         (/\ f # g
          /\ call[c].result.fieldTypes[f].type = "numeric"
          /\ call[c].result.fieldTypes[g].type = "numeric") =>
           LET r == PairedCorrelation(call[c].before, f, g)
           IN  IF AbsExceeds(r, 1, 2)
               THEN \E k \in RelationshipsOf(c, f, g) :
                      /\ RelationshipsOf(c, f, g) = {k}
                      /\ call[c].result.relationships[k].strength = r
                      /\ r.sq.num <= r.sq.den
                      /\ call[c].result.relationships[k].direction =
                           (IF r.sign > 0 THEN "positive" ELSE "negative")
               ELSE RelationshipsOf(c, f, g) = {}
    /\ call[c].before = PairScenario =>
         /\ Len(call[c].result.relationships) = 1
         /\ call[c].result.relationships[1].strength = CorrOne
         /\ call[c].result.relationships[1].direction = "positive"


\* the population variance of xs as the mean of the squares minus the square
\* of the mean: (n * sum(x^2) - sum(x)^2) / n^2
PopulationVariance(xs) ==
  Frac(Len(xs) * SumSeq([i \in DOMAIN xs |-> xs[i] * xs[i]]) - SumSeq(xs) * SumSeq(xs),
       Len(xs) * Len(xs))

\* C21: for every field with numeric stats, sum = avg * (number of non-null
\* values), variance is the population variance of those values and is not
\* negative, and with no non-null value min, max, avg, sum and variance are 0.
C21_NumericStatsConsistent ==
  \A c \in Calls : Finished(c) =>
    \A f \in DOMAIN call[c].result.fieldStats :
      call[c].result.fieldStats[f].kind = "numeric" =>
        LET stats == call[c].result.fieldStats[f]
            xs == NumericValues(call[c].before, f)
            count == call[c].result.fieldTypes[f].totalCount
        IN  /\ count = Len(xs)
            /\ stats.sum * stats.avg.den = stats.avg.num * count
            /\ stats.variance.num >= 0 /\ stats.variance.den > 0
            /\ count > 0 => stats.variance = PopulationVariance(xs)
            /\ count = 0 =>
                 /\ stats.min = 0 /\ stats.max = 0 /\ stats.sum = 0
                 /\ stats.avg = FracZero /\ stats.variance = FracZero

\* a finished analysis of six records: score is -1 in five and 1 in one, so
\* sum -4, avg -2/3 and variance 5/9
C21_Witness ==
  /\ Finished(1)
  /\ "score" \in DOMAIN call[1].result.fieldStats
  /\ call[1].result.fieldStats["score"].kind = "numeric"
  /\ call[1].result.fieldStats["score"].sum = -4
  /\ call[1].result.fieldStats["score"].avg = Frac(-2, 3)
  /\ call[1].result.fieldStats["score"].variance = Frac(5, 9)


\* the keyword categories in their fixed order, and the label each one gives;
\* the code has no label for priority, the sixth
CategoryKeywords ==
  <<Kw_identifier, Kw_error, Kw_incident, Kw_percentage, Kw_performance,
    Kw_priority, Kw_temporal>>

CategoryLabels ==
  <<"identifier", "error_metric", "incident_metric", "percentage_metric",
    "performance_metric", "", "temporal">>

FallbackLabels == {"sequential/temporal", "categorical_grouping", "measurement/metric"}

\* category k has a keyword occurring in the lower-cased field name
CategoryMatches(f, k) == SomeIncluded(ToLowerCase(Chars(f)), CategoryKeywords[k])

\* C22: inferFieldMeanings never returns the label of a keyword category when
\* an earlier category of the order identifier, error, incident, percentage,
\* performance, priority, temporal matches the field name too, and returns a
\* value-shape fallback label only when no category matches.
C22_FirstMatchingCategoryWins ==
  (meanings.called /\ meanings.error = "") =>
    \A f \in DOMAIN meanings.byField :
      LET purpose == meanings.byField[f].inferredPurpose
      IN  /\ \A k \in DOMAIN CategoryLabels :
               purpose = CategoryLabels[k] =>
                 \A j \in 1..(k - 1) : ~CategoryMatches(f, j)
          /\ purpose \in FallbackLabels =>
               \A k \in DOMAIN CategoryKeywords : ~CategoryMatches(f, k)


\* the field name contains "date" or "time", whatever the case of its letters
NameIsTemporal(f) ==
  \/ Includes(ToLowerCase(Chars(f)), <<"d", "a", "t", "e">>)
  \/ Includes(ToLowerCase(Chars(f)), <<"t", "i", "m", "e">>)

\* C23: for every field, the kind in fieldTypes is "temporal" if and only if
\* the field name contains "date" or "time", whatever the field's values.
C23_TemporalKindIffName ==
  \A c \in Calls : Finished(c) =>
    \A f \in DOMAIN call[c].result.fieldTypes :
      call[c].result.fieldTypes[f].type = "temporal" <=> NameIsTemporal(f)

\* C23, amended: the flag isTemporal holds if and only if the field name
\* contains "date" or "time", whatever the values; the kind is "temporal" if
\* and only if the flag holds and the field is neither numeric (every non-null
\* value a number) nor categorical (fewer distinct values than half the
\* non-null values).
C23_TemporalFlagIffName ==
  \A c \in Calls : Finished(c) =>
    \A f \in DOMAIN call[c].result.fieldTypes :
      LET ft == call[c].result.fieldTypes[f]
          col == Values(call[c].before, f)
          allNumbers == \A i \in DOMAIN col : IsNumber(col[i])
          fewDistinct == 2 * Cardinality(Range(col)) < Len(col)
      IN  /\ ft.isTemporal <=> NameIsTemporal(f)
          /\ ft.type = "temporal" <=>
               (NameIsTemporal(f) /\ ~allNumbers /\ ~fewDistinct)

\* a finished analysis of three records: createdTime holds one string and
\* has the kind "categorical", date holds two dates and has the kind
\* "temporal", and both carry the flag; ticketId does not
C23_Witness ==
  /\ Finished(1)
  /\ call[1].result.fieldTypes["createdTime"].isTemporal
  /\ call[1].result.fieldTypes["createdTime"].type = "categorical"
  /\ call[1].result.fieldTypes["date"].isTemporal
  /\ call[1].result.fieldTypes["date"].type = "temporal"
  /\ ~call[1].result.fieldTypes["ticketId"].isTemporal


\* the number of entries of the list names that are the field f
Occurrences(names, f) == Cardinality({i \in DOMAIN names : names[i] = f})

\* C24: in businessContext every field is in at most one of identifiers,
\* primaryMetrics and categories: a field with the identifier flag is in
\* identifiers only, a numeric field without the flag in primaryMetrics only,
\* a categorical field without the flag in categories only, and any other
\* field in none.
C24_OneBucketPerField ==
  \A c \in Calls : Finished(c) =>
    \A f \in DOMAIN call[c].result.fieldTypes :
      LET ft == call[c].result.fieldTypes[f]
          bc == call[c].result.businessContext
          inIds == Occurrences(bc.identifiers, f)
          inMetrics == Occurrences(bc.primaryMetrics, f)
          inCats == Occurrences(bc.categories, f)
      IN  /\ inIds + inMetrics + inCats <= 1
          /\ inIds = (IF ft.isIdentifier THEN 1 ELSE 0)
          /\ inMetrics = (IF ~ft.isIdentifier /\ ft.type = "numeric" THEN 1 ELSE 0)
          /\ inCats = (IF ~ft.isIdentifier /\ ft.type = "categorical" THEN 1 ELSE 0)

\* a finished analysis of three records: ticketId is numeric and an
\* identifier, createdTime is numeric and date is temporal, so the buckets are
\* ticketId, createdTime and none
C24_Witness ==
  /\ Finished(1)
  /\ call[1].result.fieldTypes["ticketId"].type = "numeric"
  /\ call[1].result.fieldTypes["date"].type = "temporal"
  /\ call[1].result.businessContext.identifiers = <<"ticketId">>
  /\ call[1].result.businessContext.primaryMetrics = <<"createdTime">>
  /\ call[1].result.businessContext.categories = <<>>


\* C25: runAgent never throws or rejects: whatever the input, the completions
\* and the tools do, it returns {action, action_input} with the action
\* "success" or "Error".
C25_RunAgentNeverRejects ==
  /\ agent.pc # "rejected"
  /\ agent.pc = "returned" => agent.action \in {"success", "Error"}

\* buildDeveloperResponse is called before any insights exist: the run has
\* returned the action "Error"
C25_Witness ==
  /\ agent.pc = "returned"
  /\ agent.met = "buildDeveloperResponse"
  /\ agent.insights = "undefined"
  /\ agent.action = "Error"

\* the loop is at a generateDynamicInsights tool call
AtInsightsCall ==
  /\ agent.pc = "tools"
  /\ agent.pending # <<>>
  /\ Head(agent.pending).parses
  /\ Head(agent.pending).name = "generateDynamicInsights"

\* C27: a generateDynamicInsights tool call that arrives before any
\* analyzeDynamically call of the run has produced a result gets the tool
\* result "Missing dataFindings; run analyzeDynamically first" and leaves the
\* recorded insights as they are.
C27_InsightsOnlyAfterAnalysis ==
  [][(AtInsightsCall /\ agent.dataAnalysis = "undefined")
     => (agent'.toolResult = "Missing dataFindings"
         /\ agent'.insights = agent.insights)]_vars

\* the loop is at a buildDeveloperResponse tool call, or past the tool calls
\* of a completion with insights that hold a visualization strategy
AtDeveloperResponse ==
  /\ agent.pc = "tools"
  /\ \/ /\ agent.pending # <<>>
        /\ Head(agent.pending).parses
        /\ Head(agent.pending).name = "buildDeveloperResponse"
     \/ agent.pending = <<>> /\ agent.insights = "plan"

CoercedValues(data, f) ==
  LET values == SelectSeq(Column(data, f), LAMBDA v : v # Undef)
      coerced == SelectSeq([i \in DOMAIN values |-> ToNumber(values[i])],
                           LAMBDA x : x.ok)
  IN  [i \in DOMAIN coerced |-> coerced[i].n]

\* every consecutive difference of xs is within 10% of the mean difference:
\* |d - S/m| < |S/m| / 10 for the m differences d of sum S
WithinTenPercent(xs) ==
  LET m == Len(xs) - 1
      S == xs[Len(xs)] - xs[1]
  IN  \A i \in 1..m : 10 * Abs(m * (xs[i + 1] - xs[i]) - S) < Abs(S)

\* C26: for a field whose name matches no keyword category and that has at
\* least 2 values, inferFieldMeanings returns "sequential/temporal" if and
\* only if every consecutive difference of the numeric-coerced values is
\* within 10% of the mean difference, for increasing and for decreasing
\* sequences alike.
C26_SequentialIffEvenSteps ==
  (meanings.called /\ meanings.error = "") =>
    \A f \in DOMAIN meanings.byField :
      LET xs == CoercedValues(attributes, f)
      IN  ((\A k \in DOMAIN CategoryKeywords : ~CategoryMatches(f, k)) /\ Len(xs) >= 2)
          => (meanings.byField[f].inferredPurpose = "sequential/temporal"
              <=> WithinTenPercent(xs))


\* C29: for two numeric fields with different numbers of numeric values,
\* relationships emits no entry, whatever the values.
C29_NoEntryForUnequalCounts ==
  \A c \in Calls : Finished(c) =>
    \A f, g \in DOMAIN call[c].result.fieldTypes :
      (/\ call[c].result.fieldTypes[f].type = "numeric"
       /\ call[c].result.fieldTypes[g].type = "numeric"
       /\ Len(NumericValues(call[c].before, f)) # Len(NumericValues(call[c].before, g)))
      => RelationshipsOf(c, f, g) = {}

\* a finished analysis of resolved = 1, 2, null and score = 1, 2, 2: the two
\* records that hold both fields agree, and the list is empty
C29_Witness ==
  /\ Finished(1)
  /\ NumericValues(call[1].before, "resolved") = <<1, 2>>
  /\ NumericValues(call[1].before, "score") = <<1, 2, 2>>
  /\ Get(call[1].before[3], "resolved") = Null
  /\ call[1].result.relationships = <<>>

\* C30: a numeric field without nulls over at most 5 records never has an
\* anomaly: 6 records is the smallest size at which one can occur
C30_NoAnomalyUpToFiveRecords ==
  (doubles.called /\ Len(doubles.values) <= 5) => doubles.anomalies = {}

====
